---- MODULE Spec2Model ----
(***************************************************************************)
(* Server-side core of the territory-capture game: GameState (movement,    *)
(* trail), the geometry functions, and GameRoom (join / leave / input /    *)
(* tick with capture, collision and projection, bot population).           *)
(*                                                                         *)
(* Numbers.  The program computes in float64; the model computes in        *)
(* integers:                                                               *)
(*   - a coordinate is an integer number of world units; a Point is the    *)
(*     pair <<x, y>>;                                                      *)
(*   - an angle is an integer number of degrees (PI = 180);                *)
(*   - sin and cos are table values scaled by SCALE;                       *)
(*   - a time is an integer number of 1/SERVER_TICK_RATE seconds, so the   *)
(*     nominal tick has dt = 1;                                            *)
(*   - a polygon area is kept as twice the shoelace sum (exact), and       *)
(*     floor(|area|) is |sum| \div 2;                                      *)
(*   - a quotient that the program keeps as a fraction is rounded to the   *)
(*     nearest integer (RoundDiv); comparisons of quotients and of         *)
(*     distances are made exactly, on the cross-multiplied / squared form. *)
(***************************************************************************)
EXTENDS Integers, Sequences, FiniteSets, TLC

-----------------------------------------------------------------------------
(* Program constants (constants.ts)                                        *)

WORLD_WIDTH == 5000
WORLD_HEIGHT == 5000
PLAYER_SPEED == 500
PLAYER_TURN_SPEED == 12
STARTING_TERRITORY_SIZE == 300
TRAIL_POINT_DISTANCE == 10
SERVER_TICK_RATE == 60

\* Math.PI in the model's angle unit (degrees).
PI == 180

\* Scale of the sine table.
SCALE == 10000

-----------------------------------------------------------------------------
(* Arithmetic helpers                                                      *)

Abs(a) == IF a < 0 THEN -a ELSE a

Sign(a) == IF a < 0 THEN -1 ELSE IF a > 0 THEN 1 ELSE 0

\* a / b rounded to the nearest integer (b # 0).
RoundDiv(a, b) ==
    LET n == IF b < 0 THEN -a ELSE a
        d == Abs(b)
    IN  (2 * n + d) \div (2 * d)

\* floor(sqrt(n)) for n >= 0, by bisection on [lo, hi].
RECURSIVE IsqrtBetween(_, _, _)
IsqrtBetween(n, lo, hi) ==
    IF lo >= hi THEN lo
    ELSE LET mid == (lo + hi + 1) \div 2
         IN  IF mid * mid <= n THEN IsqrtBetween(n, mid, hi)
                               ELSE IsqrtBetween(n, lo, mid - 1)

Isqrt(n) == IsqrtBetween(n, 0, 46340)

\* Math.sin for whole degrees 0..90, scaled by SCALE.
SinTab ==
    << 0, 175, 349, 523, 698, 872, 1045, 1219, 1392, 1564, 1736, 1908, 2079,
       2250, 2419, 2588, 2756, 2924, 3090, 3256, 3420, 3584, 3746, 3907, 4067,
       4226, 4384, 4540, 4695, 4848, 5000, 5150, 5299, 5446, 5592, 5736, 5878,
       6018, 6157, 6293, 6428, 6561, 6691, 6820, 6947, 7071, 7193, 7314, 7431,
       7547, 7660, 7771, 7880, 7986, 8090, 8192, 8290, 8387, 8480, 8572, 8660,
       8746, 8829, 8910, 8988, 9063, 9135, 9205, 9272, 9336, 9397, 9455, 9511,
       9563, 9613, 9659, 9703, 9744, 9781, 9816, 9848, 9877, 9903, 9925, 9945,
       9962, 9976, 9986, 9994, 9998, 10000 >>

\* Math.sin(a) * SCALE, a in degrees.
Sin(a) ==
    LET m == a % 360
    IN  IF m <= 90 THEN SinTab[m + 1]
        ELSE IF m <= 180 THEN SinTab[(180 - m) + 1]
        ELSE IF m <= 270 THEN -SinTab[(m - 180) + 1]
        ELSE -SinTab[(360 - m) + 1]

\* Math.cos(a) * SCALE, a in degrees.
Cos(a) == Sin(a + 90)

\* A movement update that does not normalise the angle.
KeepAngle(a) == a

\* Math.atan2(Math.sin(a), Math.cos(a)): a brought into [-PI, PI]; an odd
\* multiple of PI keeps its sign.
NormalizeAngle(a) ==
    LET m == (a + PI) % (2 * PI)
    IN  IF m = 0 THEN (IF a > 0 THEN PI ELSE -PI) ELSE m - PI

\* The two while loops of updatePlayerMovement: d brought into (-PI, PI].
NormalizeDiff(d) == ((d + PI - 1) % (2 * PI)) - (PI - 1)

-----------------------------------------------------------------------------
(* Geometry (math/geometry.ts)                                             *)

\* polygon[(i + 1) % polygon.length] with 1-based sequences.
NextIdx(i, n) == (i % n) + 1

\* isPointInPolygon: even-odd ray casting.  The x-intercept comparison
\*   point.x < (xj - xi) * (point.y - yi) / (yj - yi) + xi
\* is made exactly by multiplying through with yj - yi.
RayCrosses(point, pi, pj) ==
    /\ (pi[2] > point[2]) # (pj[2] > point[2])
    /\ LET dy  == pj[2] - pi[2]
           lhs == (point[1] - pi[1]) * dy
           rhs == (pj[1] - pi[1]) * (point[2] - pi[2])
       IN  IF dy > 0 THEN lhs < rhs ELSE lhs > rhs

isPointInPolygon(point, polygon) ==
    LET n == Len(polygon)
        crossings == { i \in 1..n :
                         RayCrosses(point, polygon[i],
                                    polygon[IF i = 1 THEN n ELSE i - 1]) }
    IN  Cardinality(crossings) % 2 = 1

\* The denominator and the two numerators of getSegmentIntersection.
SegDenom(A, B, C, D) ==
    (D[2] - C[2]) * (B[1] - A[1]) - (D[1] - C[1]) * (B[2] - A[2])

SegNumA(A, B, C, D) ==
    (D[1] - C[1]) * (A[2] - C[2]) - (D[2] - C[2]) * (A[1] - C[1])

SegNumB(A, B, C, D) ==
    (B[1] - A[1]) * (A[2] - C[2]) - (B[2] - A[2]) * (A[1] - C[1])

\* 0 <= num / denom <= 1, exactly.
UnitFraction(num, denom) ==
    IF denom > 0 THEN num >= 0 /\ num <= denom
                 ELSE num <= 0 /\ num >= denom

\* An intersection test that leaves out the far end of the first segment.
segmentsIntersectHalfOpen(a1, a2, b1, b2) ==
    LET denom == SegDenom(a1, a2, b1, b2)
    IN  /\ denom # 0
        /\ UnitFraction(SegNumA(a1, a2, b1, b2), denom)
        /\ SegNumA(a1, a2, b1, b2) # denom
        /\ UnitFraction(SegNumB(a1, a2, b1, b2), denom)

\* segmentsIntersect: getSegmentIntersection(...) !== null.
segmentsIntersect(a1, a2, b1, b2) ==
    LET denom == SegDenom(a1, a2, b1, b2)
    IN  /\ denom # 0
        /\ UnitFraction(SegNumA(a1, a2, b1, b2), denom)
        /\ UnitFraction(SegNumB(a1, a2, b1, b2), denom)

\* The point getSegmentIntersection returns when the segments intersect.
IntersectionPoint(A, B, C, D) ==
    LET denom == SegDenom(A, B, C, D)
        numA  == SegNumA(A, B, C, D)
    IN  << A[1] + RoundDiv(numA * (B[1] - A[1]), denom),
           A[2] + RoundDiv(numA * (B[2] - A[2]), denom) >>

\* The value null.
NoPoint == << >>

NoHit == [point |-> NoPoint, edgeIndex |-> -1]

\* findBoundaryIntersection: the first edge, in index order, that p1->p2
\* intersects.  edgeIndex is the program's 0-based index.
findBoundaryIntersection(p1, p2, polygon) ==
    LET n == Len(polygon)
        hits == { i \in 1..n :
                    segmentsIntersect(p1, p2, polygon[i], polygon[NextIdx(i, n)]) }
    IN  IF hits = {} THEN NoHit
        ELSE LET i == CHOOSE k \in hits : \A j \in hits : k <= j
             IN  [point |-> IntersectionPoint(p1, p2, polygon[i],
                                              polygon[NextIdx(i, n)]),
                  edgeIndex |-> i - 1]

\* extractBoundaryArc: the vertices from startEdge+1 up to endEdge, walking
\* forward (0-based edge indices).
extractBoundaryArc(polygon, startEdgeIndex, endEdgeIndex) ==
    LET n   == Len(polygon)
        cnt == (endEdgeIndex - startEdgeIndex) % n
    IN  [k \in 1..cnt |-> polygon[((startEdgeIndex + k) % n) + 1]]

\* Twice getSignedPolygonArea (the shoelace sum before the division by 2):
\* the sum of the terms of the edges lo..hi, split in halves.
RECURSIVE ShoelaceRange(_, _, _)
ShoelaceRange(polygon, lo, hi) ==
    IF lo > hi THEN 0
    ELSE IF lo = hi
    THEN LET j == NextIdx(lo, Len(polygon))
         IN  polygon[lo][1] * polygon[j][2] - polygon[j][1] * polygon[lo][2]
    ELSE LET mid == (lo + hi) \div 2
         IN  ShoelaceRange(polygon, lo, mid) + ShoelaceRange(polygon, mid + 1, hi)

getSignedPolygonArea2(polygon) == ShoelaceRange(polygon, 1, Len(polygon))

\* Math.floor(getPolygonArea(polygon)), also Math.floor(calculateArea(polygon)).
FloorArea(polygon) == Abs(getSignedPolygonArea2(polygon)) \div 2

Reverse(s) == [k \in 1..Len(s) |-> s[Len(s) + 1 - k]]

ensureClockwise(polygon) ==
    IF getSignedPolygonArea2(polygon) < 0 THEN Reverse(polygon) ELSE polygon

\* simplifyPolygon: keep polygon[0], then every vertex farther than tolerance
\* from the last kept one.
\* The points of polygon[lo..hi] that simplifyPolygon's loop pushes when
\* `last` is the last point pushed before polygon[lo].
RECURSIVE SimplifyRange(_, _, _, _, _)
SimplifyRange(polygon, lo, hi, last, tolerance) ==
    IF lo > hi THEN << >>
    ELSE IF lo = hi
    THEN LET dx == polygon[lo][1] - last[1]
             dy == polygon[lo][2] - last[2]
         IN  IF dx * dx + dy * dy > tolerance * tolerance
             THEN << polygon[lo] >> ELSE << >>
    ELSE LET mid  == (lo + hi) \div 2
             left == SimplifyRange(polygon, lo, mid, last, tolerance)
             last2 == IF Len(left) = 0 THEN last ELSE left[Len(left)]
         IN  left \o SimplifyRange(polygon, mid + 1, hi, last2, tolerance)

simplifyPolygon(polygon, tolerance) ==
    IF Len(polygon) < 3 THEN polygon
    ELSE << polygon[1] >>
         \o SimplifyRange(polygon, 2, Len(polygon), polygon[1], tolerance)

\* A capture that returns the first candidate on a tie.
computeCaptureTieFirst(territory, trail, exitPoint, exitEdgeIndex, entryPoint, entryEdgeIndex) ==
    LET n    == Len(territory)
        head == << exitPoint >> \o trail \o << entryPoint >>
    IN  IF exitEdgeIndex = entryEdgeIndex
        THEN LET candidateA == head
                 arcB == [k \in 1..n |-> territory[((exitEdgeIndex + k) % n) + 1]]
                 candidateB == head \o arcB
             IN  IF Abs(getSignedPolygonArea2(candidateA)) >=
                    Abs(getSignedPolygonArea2(candidateB))
                 THEN candidateA ELSE candidateB
        ELSE LET arcA == extractBoundaryArc(territory, exitEdgeIndex, entryEdgeIndex)
                 arcB == extractBoundaryArc(territory, entryEdgeIndex, exitEdgeIndex)
                 candidateA == head \o Reverse(arcA)
                 candidateB == head \o arcB
             IN  IF Abs(getSignedPolygonArea2(candidateA)) >=
                    Abs(getSignedPolygonArea2(candidateB))
                 THEN candidateA ELSE candidateB

\* computeCapture: the larger (by absolute area) of the two candidates.
computeCapture(territory, trail, exitPoint, exitEdgeIndex, entryPoint, entryEdgeIndex) ==
    LET n    == Len(territory)
        head == << exitPoint >> \o trail \o << entryPoint >>
    IN  IF exitEdgeIndex = entryEdgeIndex
        THEN LET candidateA == head
                 arcB == [k \in 1..n |-> territory[((exitEdgeIndex + k) % n) + 1]]
                 candidateB == head \o arcB
             IN  IF Abs(getSignedPolygonArea2(candidateA)) >
                    Abs(getSignedPolygonArea2(candidateB))
                 THEN candidateA ELSE candidateB
        ELSE LET arcA == extractBoundaryArc(territory, exitEdgeIndex, entryEdgeIndex)
                 arcB == extractBoundaryArc(territory, entryEdgeIndex, exitEdgeIndex)
                 candidateA == head \o Reverse(arcA)
                 candidateB == head \o arcB
             IN  IF Abs(getSignedPolygonArea2(candidateA)) >
                    Abs(getSignedPolygonArea2(candidateB))
                 THEN candidateA ELSE candidateB

-----------------------------------------------------------------------------
(* GameState (GameState.ts)                                                *)

\* cos and sin of the 32 seed directions are cos and sin of multiples of
\* 2*PI/32; one quadrant of cos, scaled by SCALE.
Cos32Tab == << 10000, 9808, 9239, 8315, 7071, 5556, 3827, 1951, 0 >>

Cos32(i) ==
    LET m == i % 32
    IN  IF m <= 8 THEN Cos32Tab[m + 1]
        ELSE IF m <= 16 THEN -Cos32Tab[(16 - m) + 1]
        ELSE IF m <= 24 THEN -Cos32Tab[(m - 16) + 1]
        ELSE Cos32Tab[(32 - m) + 1]

Sin32(i) == Cos32(i + 24)

\* const segments = 32
SeedSegments == 32

\* const radius = (STARTING_TERRITORY_SIZE / 2) + 5
SeedRadius == (STARTING_TERRITORY_SIZE \div 2) + 5

SeedTerritory(x, y) ==
    [k \in 1..SeedSegments |->
        << x + RoundDiv(Cos32(k - 1) * SeedRadius, SCALE),
           y + RoundDiv(Sin32(k - 1) * SeedRadius, SCALE) >>]

\* prevX / prevY before the first movement update (the property is absent).
Undefined == 0

createPlayer(id, x, y, color) ==
    [ id |-> id, x |-> x, y |-> y,
      prevX |-> Undefined, prevY |-> Undefined,
      angle |-> 0, targetAngle |-> 0, speed |-> 0, color |-> color,
      territory |-> SeedTerritory(x, y),
      trail |-> << >>,
      isOutside |-> FALSE,
      exitPoint |-> NoPoint,
      exitEdgeIndex |-> -1,
      isDead |-> FALSE,
      deathTimer |-> 0,
      score |-> FloorArea(SeedTerritory(x, y)),
      invulnerableTimer |-> 0,
      hasWon |-> FALSE,
      territoryChanged |-> FALSE ]

\* A clamp circle wider than the arena.
WideClampRadius == (WORLD_WIDTH \div 2) + 100

\* const maxRadius = (WORLD_WIDTH / 2) - 1.0
ClampRadius == (WORLD_WIDTH \div 2) - 1

\* updatePlayerMovement.  cos(atan2(dy, dx)) is dx / hypot(dx, dy); the
\* hypotenuse is taken to 1/16 of a unit.
updatePlayerMovement(player, dt) ==
    LET angle0    == NormalizeAngle(player.angle)
        angleDiff == NormalizeDiff(player.targetAngle - angle0)
        angle1    == angle0 + RoundDiv(angleDiff * PLAYER_TURN_SPEED * dt,
                                       SERVER_TICK_RATE)
        x1 == player.x + RoundDiv(Cos(angle1) * player.speed * dt,
                                  SCALE * SERVER_TICK_RATE)
        y1 == player.y + RoundDiv(Sin(angle1) * player.speed * dt,
                                  SCALE * SERVER_TICK_RATE)
        dx == x1 - (WORLD_WIDTH \div 2)
        dy == y1 - (WORLD_HEIGHT \div 2)
        d2 == dx * dx + dy * dy
        dist16 == Isqrt(d2 * 16 * 16)
        clamp == d2 > ClampRadius * ClampRadius
        x2 == IF clamp
              THEN (WORLD_WIDTH \div 2) + RoundDiv(dx * ClampRadius * 16, dist16)
              ELSE x1
        y2 == IF clamp
              THEN (WORLD_HEIGHT \div 2) + RoundDiv(dy * ClampRadius * 16, dist16)
              ELSE y1
    IN  [player EXCEPT !.angle = angle1, !.x = x2, !.y = y2,
                       !.prevX = player.x, !.prevY = player.y]

\* updatePlayerTrail
updatePlayerTrail(player) ==
    IF ~player.isOutside THEN player
    ELSE IF Len(player.trail) > 0
            /\ LET lastPoint == player.trail[Len(player.trail)]
                   dx == player.x - lastPoint[1]
                   dy == player.y - lastPoint[2]
               IN  dx * dx + dy * dy < TRAIL_POINT_DISTANCE * TRAIL_POINT_DISTANCE
    THEN player
    ELSE [player EXCEPT !.trail = Append(@, << player.x, player.y >>)]

\* The body of the loop of GameState.update for one player.
UpdatePlayer(player, dt) ==
    IF player.isDead
    THEN [player EXCEPT !.deathTimer = @ + dt]
    ELSE LET p1 == IF player.invulnerableTimer > 0
                   THEN [player EXCEPT !.invulnerableTimer = @ - dt]
                   ELSE player
         IN  updatePlayerTrail(updatePlayerMovement(p1, dt))

\* GameState.update
GameUpdate(ps, dt) == [i \in 1..Len(ps) |-> UpdatePlayer(ps[i], dt)]

\* An input that is taken from dead players too.
SetInputAlways(player, targetAngle) ==
    [player EXCEPT !.targetAngle = targetAngle,
                   !.speed = IF @ = 0 THEN PLAYER_SPEED ELSE @]

\* An input that is dropped once the player moves: the first one wins.
SetInputOnce(player, targetAngle) ==
    IF player.isDead \/ player.speed # 0 THEN player
    ELSE [player EXCEPT !.targetAngle = targetAngle, !.speed = PLAYER_SPEED]

\* An input that never starts a player.
SetInputKeepSpeed(player, targetAngle) ==
    IF player.isDead THEN player
    ELSE [player EXCEPT !.targetAngle = targetAngle]

\* GameState.setPlayerInput on the player record (the id was found).
SetInputOn(player, targetAngle) ==
    IF player.isDead THEN player
    ELSE [player EXCEPT !.targetAngle = targetAngle,
                        !.speed = IF @ = 0 THEN PLAYER_SPEED ELSE @]

\* GameState.setPlayerInput
setPlayerInput(ps, playerId, targetAngle) ==
    [i \in 1..Len(ps) |->
        IF ps[i].id = playerId THEN SetInputOn(ps[i], targetAngle) ELSE ps[i]]

-----------------------------------------------------------------------------
(* SpatialHash (SpatialHash.ts) as GameRoom uses it                        *)

\* new SpatialHash(100)
CELL_SIZE == 100

\* An insertSegment that inserts a segment at its two endpoints only (p1
\* once more in place of the midpoint).
SegmentCellsEnds(p1, p2) ==
    << << p1[1] \div CELL_SIZE, p1[2] \div CELL_SIZE >>,
       << p2[1] \div CELL_SIZE, p2[2] \div CELL_SIZE >>,
       << p1[1] \div CELL_SIZE, p1[2] \div CELL_SIZE >> >>

\* The three positions insertSegment inserts a segment at: p1, p2 and the
\* midpoint, as the cell <<cx, cy>> of each (getKey).  The midpoint's cell
\* floor(((a + b) / 2) / cellSize) is floor((a + b) / (2 * cellSize)).
SegmentCells(p1, p2) ==
    << << p1[1] \div CELL_SIZE, p1[2] \div CELL_SIZE >>,
       << p2[1] \div CELL_SIZE, p2[2] \div CELL_SIZE >>,
       << (p1[1] + p2[1]) \div (2 * CELL_SIZE),
          (p1[2] + p2[2]) \div (2 * CELL_SIZE) >> >>

\* The nine cells query(x, y) visits, in the order of its two loops.
QueryCells(x, y) ==
    LET cx == x \div CELL_SIZE
        cy == y \div CELL_SIZE
    IN  [k \in 1..9 |-> << cx + ((k - 1) \div 3) - 1, cy + ((k - 1) % 3) - 1 >>]

\* The segments checkCaptureAndCollisions inserts for one live player, in
\* insertion order: the trail segments with their index, then the territory
\* edges.
TrailItem(player, i) ==
    [type |-> "trail", playerId |-> player.id,
     p1 |-> player.trail[i + 1], p2 |-> player.trail[i + 2], index |-> i]

TerritoryItem(player, i) ==
    [type |-> "territory", playerId |-> player.id,
     p1 |-> player.territory[i + 1],
     p2 |-> player.territory[NextIdx(i + 1, Len(player.territory))],
     index |-> -1]

\* How many of a segment's three insertions went into cell c.
CountIn(p1, p2, c) ==
    LET cells == SegmentCells(p1, p2)
    IN  Cardinality({ k \in 1..3 : cells[k] = c })

\* item repeated m times
Repeat(item, m) == [k \in 1..m |-> item]

\* The part of the bucket of cell c that comes from the 0-based segment
\* indices in todo (ascending), for items made by Item(_).
RECURSIVE BucketPart(_, _, _, _)
BucketPart(player, kind, c, todo) ==
    IF todo = {} THEN << >>
    ELSE LET i    == CHOOSE k \in todo : \A j \in todo : k <= j
             item == IF kind = "trail" THEN TrailItem(player, i)
                                       ELSE TerritoryItem(player, i)
         IN  Repeat(item, CountIn(item.p1, item.p2, c))
             \o BucketPart(player, kind, c, todo \ {i})

\* The segment indices of one player with an insertion among the cells.
NearTrail(player, cellSet) ==
    { i \in 0..(Len(player.trail) - 2) :
        LET cells == SegmentCells(player.trail[i + 1], player.trail[i + 2])
        IN  \E k \in 1..3 : cells[k] \in cellSet }

NearTerritory(player, cellSet) ==
    { i \in 0..(Len(player.territory) - 1) :
        LET cells == SegmentCells(player.territory[i + 1],
                                  player.territory[NextIdx(i + 1, Len(player.territory))])
        IN  \E k \in 1..3 : cells[k] \in cellSet }

\* One bucket: what the hash build put into cell c, player after player.
RECURSIVE BucketFrom(_, _, _, _, _)
BucketFrom(hashed, i, c, nearTrail, nearTerr) ==
    IF i > Len(hashed) THEN << >>
    ELSE (IF hashed[i].isDead THEN << >>
          ELSE BucketPart(hashed[i], "trail", c,
                          { k \in nearTrail[i] :
                              CountIn(hashed[i].trail[k + 1], hashed[i].trail[k + 2], c) > 0 })
               \o BucketPart(hashed[i], "territory", c,
                          { k \in nearTerr[i] :
                              CountIn(hashed[i].territory[k + 1],
                                      hashed[i].territory[NextIdx(k + 1, Len(hashed[i].territory))],
                                      c) > 0 }))
         \o BucketFrom(hashed, i + 1, c, nearTrail, nearTerr)

\* spatialHash.query(x, y) on the hash built from the players `hashed`
\* (their trails and territories when checkCaptureAndCollisions began).
RECURSIVE QueryFrom(_, _, _, _, _)
QueryFrom(hashed, cells, k, nearTrail, nearTerr) ==
    IF k > 9 THEN << >>
    ELSE BucketFrom(hashed, 1, cells[k], nearTrail, nearTerr)
         \o QueryFrom(hashed, cells, k + 1, nearTrail, nearTerr)

SpatialQuery(hashed, x, y) ==
    LET cells   == QueryCells(x, y)
        cellSet == { cells[k] : k \in 1..9 }
        nearTrail == [i \in 1..Len(hashed) |->
                        IF hashed[i].isDead THEN {} ELSE NearTrail(hashed[i], cellSet)]
        nearTerr  == [i \in 1..Len(hashed) |->
                        IF hashed[i].isDead THEN {} ELSE NearTerritory(hashed[i], cellSet)]
    IN  QueryFrom(hashed, cells, 1, nearTrail, nearTerr)

-----------------------------------------------------------------------------
(* GameRoom.checkCaptureAndCollisions (GameRoom.ts)                        *)

\* newTerritory.length > 400: the adaptive re-simplification threshold.
MAX_TERRITORY_VERTICES == 400

\* newArea > 100: the smallest area an entry capture may commit.
MIN_CAPTURE_AREA == 100

\* player.invulnerableTimer = 0.5 (seconds), in 1/SERVER_TICK_RATE seconds.
INVULNERABLE_TIME == 30

\* player.trail.length > 2: the entry debounce.
ENTRY_MIN_TRAIL == 2

\* player.trail.length > 10 and distToExit < 80: open-space loop closure.
LOOP_MIN_TRAIL == 10

LOOP_CLOSE_DISTANCE == 80

\* isNearExitPoint: within 100 units of the exit point.
NEAR_EXIT_DISTANCE == 100

\* currentIndex - item.index > 20
SELF_INDEX_GAP == 20

\* winThreshold = PI * 2499^2 * 0.99 = 19423056.77...; a score is an
\* integer, so score >= winThreshold is score >= 19423057.
WIN_THRESHOLD == 19423057

DistSq(p, q) == (p[1] - q[1]) * (p[1] - q[1]) + (p[2] - q[2]) * (p[2] - q[2])

\* A kill that leaves the trail.
KillKeepTrail(player) ==
    [player EXCEPT !.isDead = TRUE, !.deathTimer = 0]

\* killPlayer
killPlayer(player) ==
    [player EXCEPT !.isDead = TRUE, !.deathTimer = 0, !.trail = << >>]

\* The reset without the exit point.
ClearTrailOnly(player) ==
    [player EXCEPT !.trail = << >>, !.isOutside = FALSE]

\* A reset that also grants the grace period of a commit.
ClearAndGrace(player) ==
    [player EXCEPT !.trail = << >>, !.isOutside = FALSE,
                   !.exitPoint = NoPoint, !.exitEdgeIndex = -1,
                   !.invulnerableTimer = INVULNERABLE_TIME]

\* A reset that leaves the player outside.
ClearTrailStayOut(player) ==
    [player EXCEPT !.trail = << >>, !.exitPoint = NoPoint, !.exitEdgeIndex = -1]

\* The reset both capture branches end with.
ClearTrailState(player) ==
    [player EXCEPT !.trail = << >>, !.isOutside = FALSE,
                   !.exitPoint = NoPoint, !.exitEdgeIndex = -1]

\* An exit whose trail starts at the player's position instead of the exit
\* point.
ExitAtHead(player, prevPos, currentPos, isInside) ==
    IF ~player.isOutside /\ ~isInside /\ player.invulnerableTimer <= 0
    THEN [p  |-> [player EXCEPT !.isOutside = TRUE,
                                !.exitPoint = prevPos,
                                !.exitEdgeIndex = 0,
                                !.trail = << currentPos >>],
          ev |-> {"exit"}]
    ELSE [p |-> player, ev |-> {}]

\* An exit detected during the grace period of a commit as well.
ExitIgnoresGrace(player, prevPos, currentPos, isInside) ==
    IF ~player.isOutside /\ ~isInside
    THEN LET hit == findBoundaryIntersection(prevPos, currentPos, player.territory)
         IN  IF hit # NoHit
             THEN [p  |-> [player EXCEPT !.isOutside = TRUE,
                                         !.exitPoint = hit.point,
                                         !.exitEdgeIndex = hit.edgeIndex,
                                         !.trail = << hit.point >>],
                   ev |-> {"exit"}]
             ELSE [p  |-> [player EXCEPT !.isOutside = TRUE,
                                         !.exitPoint = prevPos,
                                         !.exitEdgeIndex = 0,
                                         !.trail = << prevPos >>],
                   ev |-> {"exit", "exitFallback"}]
    ELSE [p |-> player, ev |-> {}]

\* An exit detected only where the move crosses the boundary.
ExitNoFallback(player, prevPos, currentPos, isInside) ==
    IF ~player.isOutside /\ ~isInside /\ player.invulnerableTimer <= 0
          /\ findBoundaryIntersection(prevPos, currentPos, player.territory) # NoHit
    THEN LET hit == findBoundaryIntersection(prevPos, currentPos, player.territory)
         IN  [p  |-> [player EXCEPT !.isOutside = TRUE,
                                    !.exitPoint = hit.point,
                                    !.exitEdgeIndex = hit.edgeIndex,
                                    !.trail = << hit.point >>],
              ev |-> {"exit"}]
    ELSE [p |-> player, ev |-> {}]

\* EXIT detection.
ExitStep(player, prevPos, currentPos, isInside) ==
    IF ~player.isOutside /\ ~isInside /\ player.invulnerableTimer <= 0
    THEN LET hit == findBoundaryIntersection(prevPos, currentPos, player.territory)
         IN  IF hit # NoHit
             THEN [p  |-> [player EXCEPT !.isOutside = TRUE,
                                         !.exitPoint = hit.point,
                                         !.exitEdgeIndex = hit.edgeIndex,
                                         !.trail = << hit.point >>],
                   ev |-> {"exit"}]
             ELSE [p  |-> [player EXCEPT !.isOutside = TRUE,
                                         !.exitPoint = prevPos,
                                         !.exitEdgeIndex = 0,
                                         !.trail = << prevPos >>],
                   ev |-> {"exit", "exitFallback"}]
    ELSE [p |-> player, ev |-> {}]

\* The tunneling fallback: the 0-based index of the territory vertex
\* closest to currentPos (the first one on a tie).
ClosestVertex(territory, currentPos) ==
    LET best == CHOOSE i \in 1..Len(territory) :
                  /\ \A j \in 1..Len(territory) :
                        DistSq(territory[i], currentPos) <= DistSq(territory[j], currentPos)
                  /\ \A j \in 1..(i - 1) :
                        DistSq(territory[j], currentPos) > DistSq(territory[i], currentPos)
    IN  best - 1

\* simplifyPolygon(capturedPoly, 1.0), and again with 2.0 above 400 vertices.
AdaptiveSimplify(capturedPoly) ==
    LET s1 == simplifyPolygon(capturedPoly, 1)
    IN  IF Len(s1) > MAX_TERRITORY_VERTICES THEN simplifyPolygon(s1, 2) ELSE s1

\* The territory an entry capture would commit.
EntryTerritory(player, hit) ==
    ensureClockwise(AdaptiveSimplify(
        computeCapture(player.territory, player.trail, player.exitPoint,
                       player.exitEdgeIndex, hit.point, hit.edgeIndex)))

\* The acceptance test of an entry capture.
EntryAccepts(newTerritory) ==
    Len(newTerritory) > 3 /\ FloorArea(newTerritory) > MIN_CAPTURE_AREA

\* A commit that leaves the score as it was.
CommitTerritoryOnly(player, newTerritory) ==
    [player EXCEPT !.territory = newTerritory,
                   !.territoryChanged = TRUE,
                   !.invulnerableTimer = INVULNERABLE_TIME]

CommitCapture(player, newTerritory) ==
    [player EXCEPT !.territory = newTerritory,
                   !.score = FloorArea(newTerritory),
                   !.territoryChanged = TRUE,
                   !.invulnerableTimer = INVULNERABLE_TIME]

\* An entry detection without the debounce.
EntryStepNoDebounce(player, prevPos, currentPos, isInside) ==
    IF player.isOutside /\ isInside
    THEN LET found == findBoundaryIntersection(prevPos, currentPos, player.territory)
             hit   == IF found # NoHit THEN found
                      ELSE [point |-> currentPos,
                            edgeIndex |-> ClosestVertex(player.territory, currentPos)]
             tun   == IF found # NoHit THEN {} ELSE {"tunnel"}
         IN  IF player.exitPoint # NoPoint /\ Len(player.trail) > 0
             THEN LET newTerritory == EntryTerritory(player, hit)
                  IN  IF EntryAccepts(newTerritory)
                      THEN [p  |-> ClearTrailState(CommitCapture(player, newTerritory)),
                            justCaptured |-> TRUE,
                            ev |-> tun \cup {"entry", "commit"}]
                      ELSE [p  |-> ClearTrailState(player),
                            justCaptured |-> FALSE,
                            ev |-> tun \cup {"entry", "reject"}]
             ELSE [p |-> player, justCaptured |-> FALSE, ev |-> tun \cup {"debounce"}]
    ELSE [p |-> player, justCaptured |-> FALSE, ev |-> {}]

\* An entry detection that asks for a trail of more than three points.
EntryStepLateDebounce(player, prevPos, currentPos, isInside) ==
    IF player.isOutside /\ isInside
    THEN LET found == findBoundaryIntersection(prevPos, currentPos, player.territory)
             hit   == IF found # NoHit THEN found
                      ELSE [point |-> currentPos,
                            edgeIndex |-> ClosestVertex(player.territory, currentPos)]
             tun   == IF found # NoHit THEN {} ELSE {"tunnel"}
         IN  IF player.exitPoint # NoPoint /\ Len(player.trail) > ENTRY_MIN_TRAIL + 1
             THEN LET newTerritory == EntryTerritory(player, hit)
                  IN  IF EntryAccepts(newTerritory)
                      THEN [p  |-> ClearTrailState(CommitCapture(player, newTerritory)),
                            justCaptured |-> TRUE,
                            ev |-> tun \cup {"entry", "commit"}]
                      ELSE [p  |-> ClearTrailState(player),
                            justCaptured |-> FALSE,
                            ev |-> tun \cup {"entry", "reject"}]
             ELSE [p |-> player, justCaptured |-> FALSE, ev |-> tun \cup {"debounce"}]
    ELSE [p |-> player, justCaptured |-> FALSE, ev |-> {}]

\* ENTRY detection.  A coordinate of the model is always a finite number,
\* so the isValid test passes and the try block does not throw.
EntryStep(player, prevPos, currentPos, isInside) ==
    IF player.isOutside /\ isInside
    THEN LET found == findBoundaryIntersection(prevPos, currentPos, player.territory)
             hit   == IF found # NoHit THEN found
                      ELSE [point |-> currentPos,
                            edgeIndex |-> ClosestVertex(player.territory, currentPos)]
             tun   == IF found # NoHit THEN {} ELSE {"tunnel"}
         IN  IF player.exitPoint # NoPoint /\ Len(player.trail) > ENTRY_MIN_TRAIL
             THEN LET newTerritory == EntryTerritory(player, hit)
                  IN  IF EntryAccepts(newTerritory)
                      THEN [p  |-> ClearTrailState(CommitCapture(player, newTerritory)),
                            justCaptured |-> TRUE,
                            ev |-> tun \cup {"entry", "commit"}]
                      ELSE [p  |-> ClearTrailState(player),
                            justCaptured |-> FALSE,
                            ev |-> tun \cup {"entry", "reject"}]
             ELSE [p |-> player, justCaptured |-> FALSE, ev |-> tun \cup {"debounce"}]
    ELSE [p |-> player, justCaptured |-> FALSE, ev |-> {}]

\* The territory an open-space loop closure would commit.
LoopTerritory(player) ==
    AdaptiveSimplify(
        computeCapture(player.territory, player.trail, player.exitPoint,
                       player.exitEdgeIndex, player.exitPoint, player.exitEdgeIndex))

\* A loop closure accepted on the terms of an entry capture.
LoopAcceptsValid(player, newTerritory) ==
    Len(newTerritory) > 3 /\ FloorArea(newTerritory) > MIN_CAPTURE_AREA

\* The acceptance test of a loop closure: strict growth.
LoopAccepts(player, newTerritory) ==
    Len(newTerritory) > 3 /\ FloorArea(newTerritory) > player.score

\* LOOP CLOSURE detection.
LoopStep(player, currentPos, isInside) ==
    IF /\ player.isOutside /\ ~isInside /\ player.exitPoint # NoPoint
       /\ Len(player.trail) > LOOP_MIN_TRAIL
       /\ DistSq(currentPos, player.exitPoint)
            < LOOP_CLOSE_DISTANCE * LOOP_CLOSE_DISTANCE
    THEN LET newTerritory == LoopTerritory(player)
         IN  IF LoopAccepts(player, newTerritory)
             THEN [p  |-> ClearTrailState(CommitCapture(player, newTerritory)),
                   justCaptured |-> TRUE,
                   ev |-> {"loop", "commit"}]
             ELSE [p  |-> ClearTrailState(player),
                   justCaptured |-> FALSE,
                   ev |-> {"loop", "reject"}]
    ELSE [p |-> player, justCaptured |-> FALSE, ev |-> {}]

\* A win latch without the forced return inside.
WinLatchOnly(player) ==
    [player EXCEPT !.hasWon = TRUE]

\* WIN CONDITION: the latch and the forced return inside.
WinStep(player) ==
    LET won == [player EXCEPT !.hasWon = TRUE]
    IN  IF won.isOutside THEN ClearTrailState(won) ELSE won

\* The index in ps of the player with this id (game.getPlayer); 0 if none.
IndexOfId(ps, id) ==
    IF \E i \in 1..Len(ps) : ps[i].id = id
    THEN CHOOSE i \in 1..Len(ps) : ps[i].id = id
    ELSE 0

Tag(id, evs) == { << id, e >> : e \in evs }

\* A pass with half the safety buffer of the self-collision.
CollideItemHalfGap(st, me, item, prevPos, currentPos, isInside) ==
    LET ps     == st.ps
        player == ps[me]
        crossing == /\ item.type = "trail"
                    /\ segmentsIntersect(prevPos, currentPos, item.p1, item.p2)
        vi  == IndexOfId(ps, item.playerId)
        cut == /\ item.playerId # player.id
               /\ crossing
               /\ vi # 0
               /\ ps[vi].isOutside
        ps1 == IF cut THEN [ps EXCEPT ![vi] = killPlayer(@)] ELSE ps
        ev1 == IF cut THEN st.ev \cup {<< item.playerId, "cut" >>} ELSE st.ev
        isNearExitPoint ==
            /\ player.exitPoint # NoPoint
            /\ DistSq(currentPos, player.exitPoint)
                 < NEAR_EXIT_DISTANCE * NEAR_EXIT_DISTANCE
        selfHit == /\ item.playerId = player.id
                   /\ ~isInside
                   /\ ~isNearExitPoint
                   /\ 2 * (Len(player.trail) - item.index) > SELF_INDEX_GAP
                   /\ crossing
    IN  IF selfHit
        THEN [ps |-> [ps1 EXCEPT ![me] = killPlayer(@)],
              ev |-> ev1 \cup {<< player.id, "selfHit" >>},
              done |-> TRUE]
        ELSE [ps |-> ps1, ev |-> ev1, done |-> FALSE]

\* A pass in which territory edges are as solid as trail segments.
CollideItemSolid(st, me, item, prevPos, currentPos, isInside) ==
    LET ps     == st.ps
        player == ps[me]
        crossing == segmentsIntersect(prevPos, currentPos, item.p1, item.p2)
        vi  == IndexOfId(ps, item.playerId)
        cut == /\ item.playerId # player.id
               /\ crossing
               /\ vi # 0
               /\ ps[vi].isOutside
        ps1 == IF cut THEN [ps EXCEPT ![vi] = killPlayer(@)] ELSE ps
        ev1 == IF cut THEN st.ev \cup {<< item.playerId, "cut" >>} ELSE st.ev
        isNearExitPoint ==
            /\ player.exitPoint # NoPoint
            /\ DistSq(currentPos, player.exitPoint)
                 < NEAR_EXIT_DISTANCE * NEAR_EXIT_DISTANCE
        selfHit == /\ item.playerId = player.id
                   /\ ~isInside
                   /\ ~isNearExitPoint
                   /\ Len(player.trail) - item.index > SELF_INDEX_GAP
                   /\ crossing
    IN  IF selfHit
        THEN [ps |-> [ps1 EXCEPT ![me] = killPlayer(@)],
              ev |-> ev1 \cup {<< player.id, "selfHit" >>},
              done |-> TRUE]
        ELSE [ps |-> ps1, ev |-> ev1, done |-> FALSE]

\* A pass that cuts the owner of a crossed trail segment whether or not it
\* is still outside.
CollideItemAnyVictim(st, me, item, prevPos, currentPos, isInside) ==
    LET ps     == st.ps
        player == ps[me]
        crossing == /\ item.type = "trail"
                    /\ segmentsIntersect(prevPos, currentPos, item.p1, item.p2)
        vi  == IndexOfId(ps, item.playerId)
        cut == /\ item.playerId # player.id
               /\ crossing
               /\ vi # 0
        ps1 == IF cut THEN [ps EXCEPT ![vi] = killPlayer(@)] ELSE ps
        ev1 == IF cut THEN st.ev \cup {<< item.playerId, "cut" >>} ELSE st.ev
        isNearExitPoint ==
            /\ player.exitPoint # NoPoint
            /\ DistSq(currentPos, player.exitPoint)
                 < NEAR_EXIT_DISTANCE * NEAR_EXIT_DISTANCE
        selfHit == /\ item.playerId = player.id
                   /\ ~isInside
                   /\ ~isNearExitPoint
                   /\ Len(player.trail) - item.index > SELF_INDEX_GAP
                   /\ crossing
    IN  IF selfHit
        THEN [ps |-> [ps1 EXCEPT ![me] = killPlayer(@)],
              ev |-> ev1 \cup {<< player.id, "selfHit" >>},
              done |-> TRUE]
        ELSE [ps |-> ps1, ev |-> ev1, done |-> FALSE]

\* One pass of the loop over the nearby items for the player at index me;
\* st.done is the break after a self-collision.
CollideItem(st, me, item, prevPos, currentPos, isInside) ==
    LET ps     == st.ps
        player == ps[me]
        crossing == /\ item.type = "trail"
                    /\ segmentsIntersect(prevPos, currentPos, item.p1, item.p2)
        vi  == IndexOfId(ps, item.playerId)
        cut == /\ item.playerId # player.id
               /\ crossing
               /\ vi # 0
               /\ ps[vi].isOutside
        ps1 == IF cut THEN [ps EXCEPT ![vi] = killPlayer(@)] ELSE ps
        ev1 == IF cut THEN st.ev \cup {<< item.playerId, "cut" >>} ELSE st.ev
        isNearExitPoint ==
            /\ player.exitPoint # NoPoint
            /\ DistSq(currentPos, player.exitPoint)
                 < NEAR_EXIT_DISTANCE * NEAR_EXIT_DISTANCE
        selfHit == /\ item.playerId = player.id
                   /\ ~isInside
                   /\ ~isNearExitPoint
                   /\ Len(player.trail) - item.index > SELF_INDEX_GAP
                   /\ crossing
    IN  IF selfHit
        THEN [ps |-> [ps1 EXCEPT ![me] = killPlayer(@)],
              ev |-> ev1 \cup {<< player.id, "selfHit" >>},
              done |-> TRUE]
        ELSE [ps |-> ps1, ev |-> ev1, done |-> FALSE]

\* The loop over the nearby items nearby[lo..hi].
RECURSIVE CollideRange(_, _, _, _, _, _, _, _)
CollideRange(st, me, nearby, lo, hi, prevPos, currentPos, isInside) ==
    IF lo > hi \/ st.done THEN st
    ELSE IF lo = hi
    THEN CollideItem(st, me, nearby[lo], prevPos, currentPos, isInside)
    ELSE LET mid == (lo + hi) \div 2
             left == CollideRange(st, me, nearby, lo, mid, prevPos, currentPos, isInside)
         IN  CollideRange(left, me, nearby, mid + 1, hi, prevPos, currentPos, isInside)

\* The collision detection of one player.
Collide(ps, me, nearby, prevPos, currentPos, isInside, ev) ==
    LET st == CollideRange([ps |-> ps, ev |-> ev, done |-> FALSE], me, nearby,
                           1, Len(nearby), prevPos, currentPos, isInside)
    IN  [ps |-> st.ps, ev |-> st.ev]

\* const prevPos = { x: prevX || player.x, y: prevY || player.y }
PrevPos(player) ==
    << IF player.prevX = Undefined THEN player.x ELSE player.prevX,
       IF player.prevY = Undefined THEN player.y ELSE player.prevY >>

\* The end of the loop body for the player at index me, after the three
\* detections returned ex, en and lp: the justCaptured skip, the win
\* condition and the collision detection.
CheckAfterCapture(ps, hashed, me, prevPos, currentPos, isInside, ex, en, lp) ==
    LET ev == Tag(ps[me].id, ex.ev \cup en.ev \cup lp.ev)
    IN  IF en.justCaptured \/ lp.justCaptured
        THEN [ps |-> [ps EXCEPT ![me] = lp.p], ev |-> ev]
        ELSE IF lp.p.score >= WIN_THRESHOLD
        THEN [ps |-> [ps EXCEPT ![me] = WinStep(lp.p)],
              ev |-> ev \cup {<< ps[me].id, "win" >>}]
        ELSE IF lp.p.isOutside
        THEN Collide([ps EXCEPT ![me] = lp.p], me,
                     SpatialQuery(hashed, ps[me].x, ps[me].y),
                     prevPos, currentPos, isInside,
                     ev \cup {<< ps[me].id, "collisionCheck" >>})
        ELSE [ps |-> [ps EXCEPT ![me] = lp.p], ev |-> ev]

\* The loop body after ENTRY detection returned en: LOOP CLOSURE detection.
CheckAfterEntry(ps, hashed, me, prevPos, currentPos, isInside, ex, en) ==
    CheckAfterCapture(ps, hashed, me, prevPos, currentPos, isInside, ex, en,
                      LoopStep(en.p, currentPos, isInside))

\* The loop body after EXIT detection returned ex: ENTRY detection.
CheckAfterExit(ps, hashed, me, prevPos, currentPos, isInside, ex) ==
    CheckAfterEntry(ps, hashed, me, prevPos, currentPos, isInside, ex,
                    EntryStep(ex.p, prevPos, currentPos, isInside))

\* The loop body of a live player once isInside is known: EXIT detection.
CheckLive(ps, hashed, me, prevPos, currentPos, isInside) ==
    CheckAfterExit(ps, hashed, me, prevPos, currentPos, isInside,
                   ExitStep(ps[me], prevPos, currentPos, isInside))

\* The body of the "Check each player" loop for the player at index me;
\* hashed are the players as the spatial hash indexed them.
CheckPlayer(ps, hashed, me) ==
    IF ps[me].isDead THEN [ps |-> ps, ev |-> {}]
    ELSE CheckLive(ps, hashed, me, PrevPos(ps[me]), << ps[me].x, ps[me].y >>,
                   isPointInPolygon(<< ps[me].x, ps[me].y >>, ps[me].territory))

\* The "Check each player" loop from the player at index me on; r is what
\* the body returned for the player before.
RECURSIVE CheckFrom(_, _, _, _)
CheckNext(r, hashed, me, ev) == CheckFrom(r.ps, hashed, me, ev \cup r.ev)

CheckFrom(ps, hashed, me, ev) ==
    IF me > Len(ps) THEN [ps |-> ps, ev |-> ev]
    ELSE CheckNext(CheckPlayer(ps, hashed, me), hashed, me + 1, ev)

\* checkCaptureAndCollisions: the hash is built from the players as they
\* are on entry, then each player is checked in map order.
checkCaptureAndCollisions(ps) == CheckFrom(ps, ps, 1, {})

-----------------------------------------------------------------------------
(* BotBrain (ai/BotBrain.ts)                                               *)

\* AI_UPDATE_INTERVAL = 1 / 6 (seconds), in 1/SERVER_TICK_RATE seconds.
AI_UPDATE_INTERVAL == 10

\* const margin = 300
BOT_EDGE_MARGIN == 300

\* trailLength > 40
BOT_RETURN_TRAIL == 40

\* this.changeDirTimer = 0.5 (seconds) while returning.
BOT_RETURN_COOLDOWN == 30

\* Math.atan2(dy, dx) in whole degrees, in (-PI, PI]: the direction whose
\* unit vector has the largest scalar product with (dx, dy); first among
\* the multiples of 10 degrees, then around the best of them.
Dot(d, dx, dy) == Cos(d) * dx + Sin(d) * dy

Atan2(dy, dx) ==
    IF dx = 0 /\ dy = 0 THEN 0
    ELSE LET coarse == { 10 * k : k \in -17..18 }
             c == CHOOSE d \in coarse :
                    \A e \in coarse : Dot(d, dx, dy) >= Dot(e, dx, dy)
             fine == (c - 9)..(c + 9)
             f == CHOOSE d \in fine :
                    \A e \in fine : Dot(d, dx, dy) >= Dot(e, dx, dy)
         IN  IF f <= -PI THEN f + 2 * PI ELSE IF f > PI THEN f - 2 * PI ELSE f

NewBot(botId) ==
    [playerId |-> botId, changeDirTimer |-> 0, isReturning |-> FALSE,
     aiUpdateTimer |-> 0]

\* steerTowardsTerritory: the target angle it sets (the territory of a
\* player is never empty).
RECURSIVE SumCoord(_, _, _, _)
SumCoord(poly, c, lo, hi) ==
    IF lo > hi THEN 0
    ELSE IF lo = hi THEN poly[lo][c]
    ELSE SumCoord(poly, c, lo, (lo + hi) \div 2)
         + SumCoord(poly, c, (lo + hi) \div 2 + 1, hi)

SteerAngle(player) ==
    LET centerX == RoundDiv(SumCoord(player.territory, 1, 1, Len(player.territory)), Len(player.territory))
        centerY == RoundDiv(SumCoord(player.territory, 2, 1, Len(player.territory)), Len(player.territory))
    IN  Atan2(centerY - player.y, centerX - player.x)

\* What BotBrain.update gives when it calls no setPlayerInput: no angle.
NoInput == 1000

\* Whether this call of BotBrain.update reaches the random wandering branch
\* of processBehavior, the only place that draws random numbers.
BotWanders(bot, player, dt) ==
    LET dx == player.x - (WORLD_WIDTH \div 2)
        dy == player.y - (WORLD_HEIGHT \div 2)
        reach == (WORLD_WIDTH \div 2) - BOT_EDGE_MARGIN
        returning == IF ~player.isOutside THEN FALSE ELSE bot.isReturning
    IN  /\ bot.aiUpdateTimer + dt >= AI_UPDATE_INTERVAL
        /\ ~(dx * dx + dy * dy > reach * reach)
        /\ ~(Len(player.trail) > BOT_RETURN_TRAIL /\ player.isOutside)
        /\ bot.changeDirTimer - dt <= 0
        /\ ~(returning /\ player.isOutside)

\* BotBrain.update for a bot whose player is alive.  rnd.turn is
\* (Math.random() - 0.5) * PI / 1.5 and rnd.cooldown is
\* Math.random() * 2.0 + 0.5, both read only in the wandering branch.
\* Returns the brain and the target angle given to setPlayerInput, if any.
BotUpdate(bot, player, dt, rnd) ==
    LET timer == bot.aiUpdateTimer + dt
        dx == player.x - (WORLD_WIDTH \div 2)
        dy == player.y - (WORLD_HEIGHT \div 2)
        reach == (WORLD_WIDTH \div 2) - BOT_EDGE_MARGIN
        b0 == [bot EXCEPT !.aiUpdateTimer = 0]
        b1 == [b0 EXCEPT !.changeDirTimer = @ - dt]
        b2 == IF ~player.isOutside THEN [b1 EXCEPT !.isReturning = FALSE] ELSE b1
    IN  IF timer < AI_UPDATE_INTERVAL
        THEN [bot |-> [bot EXCEPT !.aiUpdateTimer = timer], input |-> NoInput]
        ELSE IF dx * dx + dy * dy > reach * reach
        THEN [bot |-> b0, input |-> Atan2(-dy, -dx)]
        ELSE IF Len(player.trail) > BOT_RETURN_TRAIL /\ player.isOutside
        THEN [bot |-> [b1 EXCEPT !.isReturning = TRUE], input |-> SteerAngle(player)]
        ELSE IF b2.changeDirTimer <= 0
        THEN IF b2.isReturning /\ player.isOutside
             THEN [bot |-> [b2 EXCEPT !.changeDirTimer = BOT_RETURN_COOLDOWN],
                   input |-> SteerAngle(player)]
             ELSE [bot |-> [b2 EXCEPT !.changeDirTimer = rnd.cooldown],
                   input |-> player.angle + rnd.turn]
        ELSE [bot |-> b2, input |-> NoInput]

-----------------------------------------------------------------------------
(* GameRoom (GameRoom.ts): state, projection, spawn                        *)

\* The size of the model: how many handler calls (joins, leaves, inputs,
\* bot-manager runs, ticks) a run makes from its initial room.
MaxSteps == 2

\* client.sessionId of the humans that may join.
HumanIds == {"h1", "h2", "h3"}

\* `BOT_${Math.random().toString(36).substr(2, 9)}`: the k-th bot id drawn.
BotIdTab == << "BOT_a", "BOT_b", "BOT_c", "BOT_d", "BOT_e" >>

\* id.startsWith('BOT_')
IsBotId(id) == \E k \in 1..Len(BotIdTab) : BotIdTab[k] = id

\* message.angle: the target angles a client sends.
InputAngles == {0, 90, 180}

\* deltaTime of a tick, in 1/SERVER_TICK_RATE seconds: the nominal tick
\* and a late one.
DtSet == {1, 2}

\* The draws of Math.random() in BotBrain.processBehavior: a turn within
\* +/- 60 degrees and a cooldown in [0.5 s, 2.5 s).
BotRnd == { [turn |-> t, cooldown |-> c] : t \in {-59, 59}, c \in {30, 149} }

NoRnd == [turn |-> 0, cooldown |-> 0]

\* The draws of findSpawnPosition as <<angle, radius>>: angle is
\* Math.random() * 2 PI and radius is sqrt(Math.random()) * 2295.  The
\* draw at radius 300 falls outside a seed at the center or at radius 500
\* but nearer than minSafeDist to its vertices.
SpawnDraws == { << 0, 0 >>, << 0, 300 >>, << 0, 500 >>, << 0, 2295 >> }

\* maxRadius - territoryRadius - 50
SpawnReach == (WORLD_WIDTH \div 2) - SeedRadius - 50

SpawnPoint(draw) ==
    << (WORLD_WIDTH \div 2) + RoundDiv(Cos(draw[1]) * draw[2], SCALE),
       (WORLD_HEIGHT \div 2) + RoundDiv(Sin(draw[1]) * draw[2], SCALE) >>

\* const minSafeDist = territoryRadius + 100
MinSafeDist == SeedRadius + 100

\* The first loop's test of a candidate: inside no live territory and no
\* closer than minSafeDist to any vertex of one.
SpawnValid(ps, c) ==
    \A i \in 1..Len(ps) :
        ps[i].isDead \/
        ( /\ ~isPointInPolygon(c, ps[i].territory)
          /\ \A k \in 1..Len(ps[i].territory) :
                DistSq(c, ps[i].territory[k]) >= MinSafeDist * MinSafeDist )

\* A fallback loop that takes the first point it draws.
SpawnAnywhere(ps, c) == TRUE

\* The fallback loop's test: inside no live territory.
SpawnRelaxedValid(ps, c) ==
    \A i \in 1..Len(ps) :
        ps[i].isDead \/ ~isPointInPolygon(c, ps[i].territory)

ArenaCenter == << WORLD_WIDTH \div 2, WORLD_HEIGHT \div 2 >>

\* findSpawnPosition: the points it can return.  The fallback loop is
\* reached when every draw of the first loop was rejected, the arena center
\* when every draw of both loops was.
findSpawnPosition(ps) ==
    LET cands == { SpawnPoint(d) : d \in SpawnDraws }
        first == { c \in cands : SpawnValid(ps, c) }
        relaxed == { c \in cands : SpawnRelaxedValid(ps, c) }
    IN  first
        \cup (IF first # cands THEN relaxed ELSE {})
        \cup (IF first # cands /\ relaxed # cands THEN {ArenaCenter} ELSE {})

\* syncTerritory / syncTrail: the flat array [x0, y0, x1, y1, ...].
Flatten(points) ==
    [k \in 1..(2 * Len(points)) |->
        points[(k + 1) \div 2][IF k % 2 = 1 THEN 1 ELSE 2]]

\* The PlayerState onJoin and spawnBot put into the room state.
NewPlayerState(player) ==
    [ id |-> player.id, x |-> player.x, y |-> player.y, angle |-> player.angle,
      color |-> player.color, isDead |-> FALSE, hasWon |-> FALSE, score |-> 0,
      territory |-> Flatten(player.territory), trail |-> << >> ]

\* A projection that re-sends a trail only when it has grown.
SyncGrownTrail(playerState, player) ==
    [playerState EXCEPT
        !.x = player.x, !.y = player.y, !.angle = player.angle,
        !.isDead = player.isDead, !.hasWon = player.hasWon,
        !.score = player.score,
        !.trail = IF Len(@) < 2 * Len(player.trail)
                  THEN Flatten(player.trail) ELSE @,
        !.territory = IF Len(@) # 2 * Len(player.territory) \/ player.territoryChanged
                      THEN Flatten(player.territory) ELSE @]

\* The body of syncState's loop for one player with a PlayerState.
SyncPlayerState(playerState, player) ==
    [playerState EXCEPT
        !.x = player.x, !.y = player.y, !.angle = player.angle,
        !.isDead = player.isDead, !.hasWon = player.hasWon,
        !.score = player.score,
        !.trail = IF Len(@) # 2 * Len(player.trail)
                  THEN Flatten(player.trail) ELSE @,
        !.territory = IF Len(@) # 2 * Len(player.territory) \/ player.territoryChanged
                      THEN Flatten(player.territory) ELSE @]

\* syncState: the room state after the loop.
SyncedState(ps, st) ==
    [id \in DOMAIN st |->
        IF IndexOfId(ps, id) # 0
        THEN SyncPlayerState(st[id], ps[IndexOfId(ps, id)])
        ELSE st[id]]

\* A projection that never clears the hint.
SyncedKeepHint(ps, st) == ps

\* syncState: the players after the loop (the hint is cleared when the
\* territory was synced).
SyncedPlayers(ps, st) ==
    [i \in 1..Len(ps) |->
        IF /\ ps[i].id \in DOMAIN st
           /\ (Len(st[ps[i].id].territory) # 2 * Len(ps[i].territory)
               \/ ps[i].territoryChanged)
        THEN [ps[i] EXCEPT !.territoryChanged = FALSE]
        ELSE ps[i]]

\* Map.delete / Map.set on the room state and the player map.
Without(st, id) == [k \in (DOMAIN st) \ {id} |-> st[k]]

With(st, id, v) == [k \in (DOMAIN st) \cup {id} |-> IF k = id THEN v ELSE st[k]]

RemoveAt(seq, i) == [k \in 1..(Len(seq) - 1) |-> IF k < i THEN seq[k] ELSE seq[k + 1]]

\* GameState.removePlayer
removePlayer(ps, id) ==
    IF IndexOfId(ps, id) = 0 THEN ps ELSE RemoveAt(ps, IndexOfId(ps, id))

-----------------------------------------------------------------------------
(* GameRoom: the room and its handlers, as functions of the room           *)

\* PLAYER_COLORS.length
NUM_COLORS == 10

\* player.deathTimer > 1.0 (seconds), in 1/SERVER_TICK_RATE seconds.
BOT_REMOVAL_TIME == 60

TARGET_TOTAL_PLAYERS == 4

MIN_HUMAN_PLAYERS_FOR_BOTS == 3

EmptyState == [id \in {} |-> 0]

\* The room after onCreate.  players is game.players in map (insertion)
\* order, state is this.state.players, bots is this.bots in map order;
\* joined are the session ids that have joined, botSeq counts the bot ids
\* drawn, log is what the last handler reported as <<player id, event>>,
\* and lastDt is the dt of the last tick.
NewRoom ==
    [ players |-> << >>, state |-> EmptyState, bots |-> << >>, colorIndex |-> 0,
      joined |-> {}, botSeq |-> 0, log |-> {}, lastDt |-> 0 ]

\* onJoin, with the spawn position findSpawnPosition returned.
onJoin(r, id, spawnPos) ==
    LET player == createPlayer(id, spawnPos[1], spawnPos[2],
                               r.colorIndex % NUM_COLORS)
    IN  [r EXCEPT !.players = Append(@, player),
                  !.state = With(@, id, NewPlayerState(player)),
                  !.colorIndex = @ + 1,
                  !.joined = @ \cup {id},
                  !.log = {<< id, "join" >>}]

\* A leave that removes the player from the game state only.
onLeaveGameOnly(r, id) ==
    [r EXCEPT !.players = removePlayer(@, id),
              !.log = {<< id, "leave" >>}]

\* onLeave
onLeave(r, id) ==
    [r EXCEPT !.players = removePlayer(@, id),
              !.state = Without(@, id),
              !.log = {<< id, "leave" >>}]

\* onMessage('input')
onInput(r, id, angle) ==
    [r EXCEPT !.players = setPlayerInput(@, id, angle),
              !.log = {<< id, "input" >>}]

\* spawnBot, with the spawn position findSpawnPosition returned.
spawnBot(r, spawn) ==
    LET botId  == BotIdTab[r.botSeq + 1]
        player == createPlayer(botId, spawn[1], spawn[2], r.colorIndex % NUM_COLORS)
    IN  [r EXCEPT !.players = Append(@, player),
                  !.state = With(@, botId, NewPlayerState(player)),
                  !.bots = Append(@, NewBot(botId)),
                  !.colorIndex = @ + 1,
                  !.botSeq = @ + 1]

\* The rooms that k calls of spawnBot can lead to.
RECURSIVE SpawnBots(_, _)
SpawnBots(r, k) ==
    IF k = 0 THEN {r}
    ELSE UNION { SpawnBots(spawnBot(r, spawn), k - 1) :
                    spawn \in findSpawnPosition(r.players) }

\* A bot manager that fills up to the target counting the humans only.
BotsToSpawnForHumans(r) ==
    LET humanCount == Cardinality({ i \in 1..Len(r.players) :
                                      ~IsBotId(r.players[i].id) })
    IN  IF humanCount >= MIN_HUMAN_PLAYERS_FOR_BOTS THEN 0
        ELSE TARGET_TOTAL_PLAYERS - humanCount

\* manageBotPopulation: how many bots it spawns.
BotsToSpawn(r) ==
    LET humanCount == Cardinality({ i \in 1..Len(r.players) :
                                      ~IsBotId(r.players[i].id) })
        totalPlayers == humanCount + Len(r.bots)
    IN  IF humanCount >= MIN_HUMAN_PLAYERS_FOR_BOTS THEN 0
        ELSE IF totalPlayers < TARGET_TOTAL_PLAYERS
        THEN TARGET_TOTAL_PLAYERS - totalPlayers
        ELSE 0

\* manageBotPopulation: the rooms it can lead to.
manageBotPopulation(r) ==
    SpawnBots([r EXCEPT !.log = {<< "room", "manageBots" >>}], BotsToSpawn(r))

\* A bot loop that removes a dead bot one tick early.
BotStepAtLimit(r, bot, dt, rnd) ==
    LET pi == IndexOfId(r.players, bot.playerId)
    IN  IF pi = 0
        THEN [r EXCEPT !.state = Without(@, bot.playerId)]
        ELSE IF r.players[pi].isDead /\ r.players[pi].deathTimer >= BOT_REMOVAL_TIME
        THEN [r EXCEPT !.players = removePlayer(@, bot.playerId),
                       !.state = Without(@, bot.playerId)]
        ELSE IF ~r.players[pi].isDead
        THEN LET u == BotUpdate(bot, r.players[pi], dt, rnd)
             IN  [r EXCEPT !.bots = Append(@, u.bot),
                           !.players = IF u.input = NoInput THEN @
                                       ELSE setPlayerInput(@, bot.playerId, u.input)]
        ELSE [r EXCEPT !.bots = Append(@, bot)]

\* The body of update's bots.forEach for one bot of the map as it was when
\* the loop began; r.bots collects the bots that stay.
BotStep(r, bot, dt, rnd) ==
    LET pi == IndexOfId(r.players, bot.playerId)
    IN  IF pi = 0
        THEN [r EXCEPT !.state = Without(@, bot.playerId)]
        ELSE IF r.players[pi].isDead /\ r.players[pi].deathTimer > BOT_REMOVAL_TIME
        THEN [r EXCEPT !.players = removePlayer(@, bot.playerId),
                       !.state = Without(@, bot.playerId)]
        ELSE IF ~r.players[pi].isDead
        THEN LET u == BotUpdate(bot, r.players[pi], dt, rnd)
             IN  [r EXCEPT !.bots = Append(@, u.bot),
                           !.players = IF u.input = NoInput THEN @
                                       ELSE setPlayerInput(@, bot.playerId, u.input)]
        ELSE [r EXCEPT !.bots = Append(@, bot)]

RECURSIVE BotsFrom(_, _, _, _, _)
BotsFrom(r, bs, i, dt, rnds) ==
    IF i > Len(bs) THEN r
    ELSE BotsFrom(BotStep(r, bs[i], dt, rnds[i]), bs, i + 1, dt, rnds)

\* The draws the bots of a tick can read: one per bot that wanders (ps are
\* the players after the physics update).
BotDraws(ps, bs, dt) ==
    { rnds \in [1..Len(bs) -> BotRnd \cup {NoRnd}] :
        \A i \in 1..Len(bs) :
            LET pi == IndexOfId(ps, bs[i].playerId)
            IN  IF pi # 0 /\ ~ps[pi].isDead /\ BotWanders(bs[i], ps[pi], dt)
                THEN rnds[i] \in BotRnd
                ELSE rnds[i] = NoRnd }

\* The end of update(dt): syncState, after checkCaptureAndCollisions
\* returned cc for the room b.
UpdateSynced(b, cc, dt) ==
    [b EXCEPT !.players = SyncedPlayers(cc.ps, b.state),
              !.state = SyncedState(cc.ps, b.state),
              !.log = cc.ev \cup {<< "room", "tick" >>},
              !.lastDt = dt]

\* update(dt) after the physics update and the bots: capture and
\* collisions, then the projection.
UpdateChecked(b, dt) ==
    UpdateSynced(b, checkCaptureAndCollisions(b.players), dt)

\* update(dt): physics, bots, capture and collisions, projection.
update(r, dt, rnds) ==
    UpdateChecked(BotsFrom([r EXCEPT !.players = GameUpdate(r.players, dt),
                                     !.bots = << >>],
                           r.bots, 1, dt, rnds),
                  dt)

-----------------------------------------------------------------------------
(* Scripted runs: the handlers called one after another from a room        *)

\* The bot-manager run of a script: the room of manageBotPopulation(r) whose
\* new bots got the spawn draws given, in this order.
SpawnedAt(r, n, draws) ==
    /\ Len(n.players) = Len(r.players) + Len(draws)
    /\ \A k \in 1..Len(draws) :
          << n.players[Len(r.players) + k].x, n.players[Len(r.players) + k].y >>
            = SpawnPoint(draws[k])

ExecBots(r, draws) ==
    IF \E n \in manageBotPopulation(r) : SpawnedAt(r, n, draws)
    THEN CHOOSE n \in manageBotPopulation(r) : SpawnedAt(r, n, draws)
    ELSE r

\* The tick of a script in a room with bots: rnds[i] is what the i-th bot
\* draws if it wanders in this tick.
ExecBotTick(r, dt, rnds) ==
    IF Len(rnds) < Len(r.bots) THEN r
    ELSE update(r, dt,
                CHOOSE d \in BotDraws(GameUpdate(r.players, dt), r.bots, dt) :
                    \A i \in 1..Len(r.bots) : d[i] \in {rnds[i], NoRnd})

\* One handler call of a script: <<"join", id, spawn draw>>,
\* <<"leave", id>>, <<"input", id, angle>>, <<"tick", dt>> (a tick of a
\* room without bots), <<"bots", spawn draws>> or <<"botTick", dt, draws>>.
\* A call the room cannot take leaves it as it is.
Exec(r, cmd) ==
    CASE cmd[1] = "join" ->
            IF cmd[2] \notin r.joined /\ SpawnPoint(cmd[3]) \in findSpawnPosition(r.players)
            THEN onJoin(r, cmd[2], SpawnPoint(cmd[3])) ELSE r
      [] cmd[1] = "leave" ->
            IF cmd[2] \in DOMAIN r.state THEN onLeave(r, cmd[2]) ELSE r
      [] cmd[1] = "input" ->
            IF cmd[2] \in DOMAIN r.state THEN onInput(r, cmd[2], cmd[3]) ELSE r
      [] cmd[1] = "tick" ->
            IF Len(r.bots) = 0 THEN update(r, cmd[2], << >>) ELSE r
      [] cmd[1] = "bots" -> ExecBots(r, cmd[2])
      [] cmd[1] = "botTick" -> ExecBotTick(r, cmd[2], cmd[3])

\* What a run of calls gives: the rooms kept and the room it ends in.
TraceOne(n, kept) == [seen |-> IF kept THEN {n} ELSE {}, last |-> n]

TraceBoth(a, b) == [seen |-> a.seen \cup b.seen, last |-> b.last]

\* The calls cmds[lo..hi] made from room r: the room they end in, and the
\* rooms reached by the calls whose position in cmds is in keep.  The calls
\* are made in halves, a being what the first half gave.
RECURSIVE Trace(_, _, _, _, _)
TraceRest(a, cmds, lo, hi, keep) ==
    TraceBoth(a, Trace(a.last, cmds, lo, hi, keep))

Trace(r, cmds, lo, hi, keep) ==
    IF lo > hi THEN [seen |-> {}, last |-> r]
    ELSE IF lo = hi THEN TraceOne(Exec(r, cmds[lo]), lo \in keep)
    ELSE TraceRest(Trace(r, cmds, lo, (lo + hi) \div 2, keep),
                   cmds, ((lo + hi) \div 2) + 1, hi, keep)

\* The room after the calls cmds, made from a new room.
Run(cmds) == Trace(NewRoom, cmds, 1, Len(cmds), {}).last

\* The rooms reached by the calls of cmds at the positions in keep.
Rooms(cmds, keep) == Trace(NewRoom, cmds, 1, Len(cmds), keep).seen

\* n nominal ticks.
Ticks(n) == [k \in 1..n |-> << "tick", 1 >>]

\* An input of one client followed by n nominal ticks.
Steer(id, angle, n) == << << "input", id, angle >> >> \o Ticks(n)

\* An input of one client followed by n ticks of a loaded server: 1/12 s
\* each instead of 1/60 s.
Slow(id, angle, n) ==
    << << "input", id, angle >> >> \o [k \in 1..n |-> << "tick", 5 >>]

-----------------------------------------------------------------------------
(* The state machine                                                       *)

VARIABLES
    players,     \* game.players
    state,       \* this.state.players
    bots,        \* this.bots
    colorIndex,  \* this.colorIndex
    joined,      \* the session ids that have joined so far
    botSeq,      \* how many bot ids have been drawn
    log,         \* what the last handler reported
    lastDt,      \* dt of the last tick
    steps        \* handler calls made since the initial room

vars == << players, state, bots, colorIndex, joined, botSeq, log, lastDt, steps >>

Room ==
    [ players |-> players, state |-> state, bots |-> bots,
      colorIndex |-> colorIndex, joined |-> joined, botSeq |-> botSeq,
      log |-> log, lastDt |-> lastDt ]

RoomIs(r) ==
    /\ players = r.players
    /\ state = r.state
    /\ bots = r.bots
    /\ colorIndex = r.colorIndex
    /\ joined = r.joined
    /\ botSeq = r.botSeq
    /\ log = r.log
    /\ lastDt = r.lastDt

Becomes(r) ==
    /\ players' = r.players
    /\ state' = r.state
    /\ bots' = r.bots
    /\ colorIndex' = r.colorIndex
    /\ joined' = r.joined
    /\ botSeq' = r.botSeq
    /\ log' = r.log
    /\ lastDt' = r.lastDt
    /\ steps' = steps + 1

Init == RoomIs(NewRoom) /\ steps = 0

Join(id) ==
    /\ steps < MaxSteps
    /\ id \notin joined
    /\ \E spawnPos \in findSpawnPosition(players) : Becomes(onJoin(Room, id, spawnPos))

Leave(id) ==
    /\ steps < MaxSteps
    /\ id \in DOMAIN state
    /\ ~IsBotId(id)
    /\ Becomes(onLeave(Room, id))

Input(id, angle) ==
    /\ steps < MaxSteps
    /\ id \in DOMAIN state
    /\ ~IsBotId(id)
    /\ Becomes(onInput(Room, id, angle))

ManageBots ==
    /\ steps < MaxSteps
    /\ botSeq + BotsToSpawn(Room) <= Len(BotIdTab)
    /\ \E r \in manageBotPopulation(Room) : Becomes(r)

Tick(dt) ==
    /\ steps < MaxSteps
    /\ \E rnds \in BotDraws(GameUpdate(players, dt), bots, dt) :
          Becomes(update(Room, dt, rnds))

Next ==
    \/ \E id \in HumanIds : Join(id)
    \/ \E id \in HumanIds : Leave(id)
    \/ \E id \in HumanIds, angle \in InputAngles : Input(id, angle)
    \/ ManageBots
    \/ \E dt \in DtSet : Tick(dt)

Spec == Init /\ [][Next]_vars

-----------------------------------------------------------------------------
(* Runs of play: rooms some way into a game                                *)

\* Three clients join: one at the arena center, one 500 to its east, one at
\* the eastern edge of the spawn disc.  With three humans the bot manager
\* spawns nothing.
ThreeJoin ==
    << << "join", "h1", << 0, 0 >> >>,
       << "join", "h2", << 0, 500 >> >>,
       << "join", "h3", << 0, 2295 >> >> >>

\* h1 leaves its seed eastwards, turns south, then west and re-enters:
\* an exit, a trail, an entry capture.
CaptureRun ==
    ThreeJoin \o Steer("h1", 0, 24) \o Steer("h1", 90, 10) \o Steer("h1", 180, 27)

\* h1 leaves eastwards and walks a small clockwise loop back to its exit
\* point without re-entering: a loop closure that grows the territory.
ShortLoopRun ==
    ThreeJoin \o Steer("h1", 0, 27) \o Steer("h1", 90, 9)
        \o Steer("h1", 180, 9) \o Steer("h1", -90, 14)

\* h3 walks east into the arena boundary.  h1 walks east through h2's
\* territory and on; h2 first crosses h1's trail inside its own territory,
\* then leaves its territory northwards, turns and crosses h1's trail
\* again in the open.
CrossingRun ==
    ThreeJoin \o << << "input", "h3", 0 >> >> \o Steer("h1", 0, 60)
        \o Steer("h2", 90, 10) \o Steer("h2", -90, 36) \o Steer("h2", 0, 14)
        \o Steer("h2", 90, 34)

\* Play starts in the new room or in a room along the runs above, around
\* their events.
InitPlay ==
    /\ steps = 0
    /\ \E r \in {NewRoom}
                \cup Rooms(CaptureRun, (1..4) \cup (22..26) \cup (56..61))
                \cup Rooms(ShortLoopRun, 52..60)
                \cup Rooms(CrossingRun, (28..32) \cup (89..92) \cup (104..106)
                                            \cup (157..162)) :
           RoomIs(r)

SpecPlay == InitPlay /\ [][Next]_vars

\* h1 leaves westwards and walks a counter-clockwise loop of more than its
\* seed's area back to its exit point.
WideLoopRun ==
    ThreeJoin \o Steer("h1", 180, 60) \o Steer("h1", 90, 40)
        \o Steer("h1", 0, 40) \o Steer("h1", -90, 45)

InitLoop ==
    /\ steps = 0
    /\ \E r \in {NewRoom} \cup Rooms(WideLoopRun, (1..4) \cup (181..188)) : RoomIs(r)

SpecLoop == InitLoop /\ [][Next]_vars

\* On a loaded server h3 leaves its seed, follows the arena boundary all
\* the way round and closes the loop at its exit point; then it turns back
\* west through its seed.  Meanwhile h2 walks east to h3's seed and turns
\* north across the path h3 has just walked.
WinRun ==
    ThreeJoin \o Slow("h3", 0, 5) \o Slow("h3", 90, 33) \o Slow("h3", 120, 33)
        \o Slow("h3", 150, 33) \o Slow("h3", 180, 33) \o Slow("h3", -150, 33)
        \o Slow("h3", -120, 33) \o Slow("h3", -90, 33) \o Slow("h3", -60, 33)
        \o Slow("h3", -30, 33) \o Slow("h3", 0, 33) \o Slow("h3", 30, 30)
        \o Slow("h2", 0, 3) \o Slow("h3", 60, 32) \o Slow("h3", 180, 6)
        \o Slow("h2", -90, 3)

InitWin ==
    /\ steps = 0
    /\ \E r \in {NewRoom} \cup Rooms(WinRun, (1..4) \cup (414..428)) : RoomIs(r)

SpecWin == InitWin /\ [][Next]_vars

\* h1 walks east along y = 2500 past h2's seed; h2 leaves its seed to the
\* north-east, turns south across y = 2500 ahead of h1 and then back north
\* across the trail h1 has drawn, in the very tick in which h1's head
\* reaches the place where h2 first crossed.
MutualRun ==
    ThreeJoin \o Steer("h1", 0, 31) \o Steer("h2", -45, 30) \o Steer("h2", 90, 22)
        \o Steer("h2", 180, 5) \o Steer("h2", -90, 8)

\* h1 walks east along y = 2500 as in MutualRun; h2 makes the same outing
\* but keeps turning west and re-enters its seed in the very tick in which
\* h1's head reaches the place where h2's trail crosses y = 2500.
CloseAndCutRun ==
    ThreeJoin \o Steer("h1", 0, 27) \o Steer("h2", -45, 30) \o Steer("h2", 90, 22)
        \o Steer("h2", 180, 17)

InitDuel ==
    /\ steps = 0
    /\ \E r \in {NewRoom} \cup Rooms(MutualRun, (1..4) \cup (87..88) \cup (99..102))
                        \cup Rooms(CloseAndCutRun, 98..101) : RoomIs(r)

SpecDuel == InitDuel /\ [][Next]_vars

\* After the capture of CaptureRun h1 keeps walking west and leaves its
\* territory while it is still invulnerable; the exit is detected only when
\* the timer has run out, well outside, with no boundary crossing in that
\* tick (the fallback exit).  Then h1 turns round and re-enters.
FallbackRun ==
    ThreeJoin \o Steer("h1", 0, 24) \o Steer("h1", 90, 10) \o Steer("h1", 180, 50)
        \o Steer("h1", -45, 12)

\* After the capture of CaptureRun h1 turns north through its seed and then
\* south-east across the notch where the captured pocket meets the seed:
\* it is outside for one tick and back inside with a trail of two points.
NotchRun ==
    ThreeJoin \o Steer("h1", 0, 24) \o Steer("h1", 90, 10) \o Steer("h1", 180, 20)
        \o Steer("h1", -90, 20) \o Steer("h1", 45, 19)

\* h1 leaves eastwards and walks a small counter-clockwise loop back
\* towards its exit point without re-entering: a loop closure that does not
\* grow the territory.
RejectedLoopRun ==
    ThreeJoin \o Steer("h1", 0, 34) \o Steer("h1", -90, 3) \o Steer("h1", 180, 19)

\* h1 leaves eastwards, walks a tight loop across the trail it has just
\* drawn, goes on east and then walks a wide loop back across the trail it
\* drew long before.
SelfHitRun ==
    ThreeJoin \o Steer("h1", 0, 45) \o Steer("h1", 90, 5) \o Steer("h1", 180, 5)
        \o Steer("h1", -90, 5) \o Steer("h1", 0, 30) \o Steer("h1", 90, 12)
        \o Steer("h1", 180, 12) \o Steer("h1", -90, 18)

InitSolo ==
    /\ steps = 0
    /\ \E r \in {NewRoom} \cup Rooms(FallbackRun, (1..4) \cup (87..89) \cup (101..103))
                        \cup Rooms(NotchRun, 97..101)
                        \cup Rooms(ShortLoopRun, 57..58)
                        \cup Rooms(RejectedLoopRun, 59..62)
                        \cup Rooms(SelfHitRun, (72..76) \cup (141..143)) : RoomIs(r)

SpecSolo == InitSolo /\ [][Next]_vars

\* The draws of the two bots of BotRun: they turn 59 degrees to either side
\* and then keep their course.
BotRunDraws ==
    << [turn |-> 59, cooldown |-> 149], [turn |-> -59, cooldown |-> 149] >>

BotTicks(n) == [k \in 1..n |-> << "botTick", 1, BotRunDraws >>]

\* h1 joins 500 east of the arena center and h2 at the rim; the bot manager
\* spawns two bots at the center.  BOT_a leaves north-east; h1 starts 20
\* ticks later, crosses BOT_a's trail behind it (BOT_a dies) and walks on.
BotRun ==
    << << "join", "h1", << 0, 500 >> >>, << "join", "h2", << 0, 2295 >> >>,
       << "bots", << << 0, 0 >>, << 0, 0 >> >> >> >>
        \o BotTicks(20) \o << << "input", "h1", 135 >> >> \o BotTicks(113)

BotIds == { BotIdTab[k] : k \in 1..Len(BotIdTab) }

\* A bot of the bot table whose player is dead.
DeadBot(id) ==
    /\ \E k \in 1..Len(bots) : bots[k].playerId = id
    /\ \E i \in 1..Len(players) : players[i].id = id /\ players[i].isDead

\* setSimulationInterval keeps calling update: the ticks that a dead bot
\* is waiting for run whatever the number of handler calls made so far.
TickPossible == steps < MaxSteps \/ \E id \in BotIds : DeadBot(id)

RunningTick(dt) ==
    /\ TickPossible
    /\ \E r \in { update(Room, dt, rnds) :
                    rnds \in BotDraws(GameUpdate(players, dt), bots, dt) } :
          Becomes(r)

\* The steps that are ticks: update ends with the tick's report in log.
TickStep == << "room", "tick" >> \in log' /\ steps' = steps + 1

\* Weak fairness of the tick, WF_vars(\E dt \in DtSet : RunningTick(dt)),
\* written out: update(dt) is defined for every room and every dt, so a
\* tick is enabled exactly when TickPossible holds, and the timer of
\* setSimulationInterval never stops firing.
TickFairness == []<>(~TickPossible) \/ []<><< TickStep >>_vars

NextReap ==
    \/ \E id \in HumanIds : Join(id)
    \/ \E id \in HumanIds : Leave(id)
    \/ \E id \in HumanIds, angle \in InputAngles : Input(id, angle)
    \/ ManageBots
    \/ \E dt \in DtSet : RunningTick(dt)

\* The rooms of BotRun just after the bots were spawned and in the last
\* ticks before the dead BOT_a is removed.
InitReap ==
    /\ steps = 0
    /\ \E r \in {NewRoom} \cup Rooms(BotRun, (1..4) \cup (133..137)) : RoomIs(r)

SpecReap == InitReap /\ [][NextReap]_vars /\ TickFairness

\* The rooms of FallbackRun around h1's first exit through an edge of its
\* seed and around its fallback exit, and the rooms of WinRun in which the
\* winner h3, its grace period over, stands outside its territory.
InitExit ==
    /\ steps = 0
    /\ \E r \in {NewRoom} \cup Rooms(FallbackRun, (1..4) \cup (22..24) \cup (86..89))
                        \cup Rooms(WinRun, 427..428) : RoomIs(r)

SpecExit == InitExit /\ [][Next]_vars

-----------------------------------------------------------------------------
(* getSegmentIntersection in the arithmetic of Number                      *)

\* The significant bits of a number: Number has 53; the model rounds the
\* same way (to nearest, ties to even) with fewer bits.
FLOAT_BITS == 6

\* The spacing of the numbers of magnitude a, found from u upwards.
RECURSIVE FloatUnit(_, _)
FloatUnit(a, u) == IF a < (2 ^ FLOAT_BITS) * u THEN u ELSE FloatUnit(a, 2 * u)

\* a >= 0 rounded to the nearest multiple of u, ties to the even multiple.
RoundTo(a, u) ==
    u * ((a \div u)
         + (IF 2 * (a % u) > u \/ (2 * (a % u) = u /\ (a \div u) % 2 = 1)
            THEN 1 ELSE 0))

\* The number that an arithmetic operation with the exact result v gives.
Fl(v) == Sign(v) * RoundTo(Abs(v), FloatUnit(Abs(v), 1))

\* a * b - c * d as Number arithmetic evaluates it: both products and the
\* difference are rounded.
FloatCross(a, b, c, d) == Fl(Fl(a * b) - Fl(c * d))

\* const denom = (D.y - C.y) * (B.x - A.x) - (D.x - C.x) * (B.y - A.y)
FloatSegDenom(A, B, C, D) ==
    FloatCross(Fl(D[2] - C[2]), Fl(B[1] - A[1]), Fl(D[1] - C[1]), Fl(B[2] - A[2]))

\* u >= 0 && u <= 1 for u = num / denom rounded: the quotient is rounded
\* to 1 up to half a spacing above 1.
FloatUnitFraction(num, denom) ==
    \/ num = 0
    \/ /\ Sign(num) = Sign(denom)
       /\ Abs(num) * (2 ^ FLOAT_BITS) <= Abs(denom) * ((2 ^ FLOAT_BITS) + 1)

\* segmentsIntersect as Number arithmetic evaluates it.
segmentsIntersectFloat(A, B, C, D) ==
    /\ FloatSegDenom(A, B, C, D) # 0
    /\ FloatUnitFraction(FloatCross(Fl(D[1] - C[1]), Fl(A[2] - C[2]),
                                    Fl(D[2] - C[2]), Fl(A[1] - C[1])),
                         FloatSegDenom(A, B, C, D))
    /\ FloatUnitFraction(FloatCross(Fl(B[1] - A[1]), Fl(A[2] - C[2]),
                                    Fl(B[2] - A[2]), Fl(A[1] - C[1])),
                         FloatSegDenom(A, B, C, D))

\* The end points the segments are drawn from.
SegmentPoints ==
    { << 0, 0 >>, << 0, 25 >>, << 63, 63 >>, << 0, 5 >>, << 5, 0 >>, << 5, 5 >>,
      << 2, 3 >>, << 7, 1 >> }

\* segmentsIntersect on (A,B,C,D), (B,A,C,D) and (C,D,A,B), in exact
\* arithmetic and in rounded arithmetic.
Answers(A, B, C, D) ==
    [ exact |-> << segmentsIntersect(A, B, C, D), segmentsIntersect(B, A, C, D),
                   segmentsIntersect(C, D, A, B) >>,
      float |-> << segmentsIntersectFloat(A, B, C, D),
                   segmentsIntersectFloat(B, A, C, D),
                   segmentsIntersectFloat(C, D, A, B) >> ]

\* The segments (A,B) and (C,D) are drawn; log holds them.
InitSegments ==
    /\ steps = 0
    /\ \E A \in SegmentPoints, B \in SegmentPoints,
          C \in SegmentPoints, D \in SegmentPoints :
          RoomIs([NewRoom EXCEPT !.log = {<< << A, B, C, D >>, "segments" >>}])

\* The function is applied to the segments drawn, in the three orders; log
\* holds the segments and the answers.
Intersect ==
    /\ steps = 0
    /\ \E s \in log :
          log' = {<< s[1], Answers(s[1][1], s[1][2], s[1][3], s[1][4]) >>}
    /\ steps' = 1
    /\ UNCHANGED << players, state, bots, colorIndex, joined, botSeq, lastDt >>

NextSegments == Intersect

SpecSegments == InitSegments /\ [][NextSegments]_vars

\* The run of CloseAndCutRun with h2 joining before h1, so that the
\* player map holds h2 first: h2 re-enters its seed and its capture is
\* processed before the collision check of h1, whose head crosses in that
\* tick the trail h2 has just closed.
CloseFirstRun ==
    << << "join", "h2", << 0, 500 >> >>, << "join", "h1", << 0, 0 >> >>,
       << "join", "h3", << 0, 2295 >> >> >>
        \o SubSeq(CloseAndCutRun, 4, Len(CloseAndCutRun))

\* The rooms around the closing tick of CloseFirstRun, around the cut of
\* CloseAndCutRun and around the self-collision of SelfHitRun.
InitCloser ==
    /\ steps = 0
    /\ \E r \in {NewRoom} \cup Rooms(CloseFirstRun, (1..4) \cup (99..101))
                        \cup Rooms(CloseAndCutRun, 99..101)
                        \cup Rooms(SelfHitRun, 141..143) : RoomIs(r)

SpecCloser == InitCloser /\ [][Next]_vars

-----------------------------------------------------------------------------
(* Wandering bots: the time between two picks of a heading                 *)

\* The cooldown the bots of WanderRun draw: Math.random() * 2.0 + 0.5 at
\* its least, 0.5 s.
WanderCooldown == 30

\* How long the bots are followed after their pick, in ticks of 1/60 s.
MaxWanderTime == 45

\* h1 joins 500 east of the arena center and h2 at the rim, the bot manager
\* spawns two bots at the center, and in the tenth tick the bots take
\* their first decision: each picks a heading, turning by t1 and t2, and
\* draws the cooldown of 0.5 s.
WanderRun(t1, t2) ==
    << << "join", "h1", << 0, 500 >> >>, << "join", "h2", << 0, 2295 >> >>,
       << "bots", << << 0, 0 >>, << 0, 0 >> >> >> >>
        \o [k \in 1..AI_UPDATE_INTERVAL |->
              << "botTick", 1, << [turn |-> t1, cooldown |-> WanderCooldown],
                                  [turn |-> t2, cooldown |-> WanderCooldown] >> >>]

\* The rooms in which both bots have just picked a heading; steps counts
\* the nominal ticks since, which is the simulated time since the pick.
InitWander ==
    /\ steps = 0
    /\ \E t1 \in {-59, 59}, t2 \in {-59, 59} :
          \E r \in Rooms(WanderRun(t1, t2), {3 + AI_UPDATE_INTERVAL}) : RoomIs(r)

\* A nominal tick.
WanderTick ==
    /\ steps < MaxWanderTime
    /\ \E r \in { update(Room, 1, rnds) :
                    rnds \in BotDraws(GameUpdate(players, 1), bots, 1) } :
          Becomes(r)

NextWander == WanderTick

SpecWander == InitWander /\ [][NextWander]_vars

-----------------------------------------------------------------------------
(* extractBoundaryArc, one iteration of its loop at a time                 *)

\* The polygons walked have up to this many vertices.
MaxArcVertices == 6

\* A polygon of n different vertices.
ArcPolygon(n) == [k \in 1..n |-> << 10 * k, k * k >>]

\* const arc = []; let i = (startEdgeIndex + 1) % polygon.length
ArcStart(polygon, startEdgeIndex, endEdgeIndex) ==
    [ polygon |-> polygon, startEdgeIndex |-> startEdgeIndex,
      endEdgeIndex |-> endEdgeIndex,
      i |-> (startEdgeIndex + 1) % Len(polygon), arc |-> << >> ]

\* A loop that stops at the end edge's first vertex.
ArcContinuesToEdge(w) == w.i # w.endEdgeIndex

\* while (i !== (endEdgeIndex + 1) % polygon.length)
ArcContinues(w) == w.i # (w.endEdgeIndex + 1) % Len(w.polygon)

\* arc.push(polygon[i]); i = (i + 1) % polygon.length
ArcPush(w) ==
    [w EXCEPT !.arc = Append(@, w.polygon[w.i + 1]),
              !.i = (w.i + 1) % Len(w.polygon)]

\* The function is called on a polygon with two of its edge indices; log
\* holds the locals of the call.
InitArc ==
    /\ steps = 0
    /\ \E n \in 1..MaxArcVertices :
          \E startEdgeIndex \in 0..(n - 1), endEdgeIndex \in 0..(n - 1) :
              RoomIs([NewRoom EXCEPT !.log =
                        {<< ArcStart(ArcPolygon(n), startEdgeIndex, endEdgeIndex),
                            "walking" >>}])

\* One iteration of the loop.
ArcIterate ==
    /\ \E c \in log :
          /\ c[2] = "walking"
          /\ ArcContinues(c[1])
          /\ log' = {<< ArcPush(c[1]), "walking" >>}
    /\ steps' = steps + 1
    /\ UNCHANGED << players, state, bots, colorIndex, joined, botSeq, lastDt >>

\* The loop condition fails: return arc.
ArcReturn ==
    /\ \E c \in log :
          /\ c[2] = "walking"
          /\ ~ArcContinues(c[1])
          /\ log' = {<< c[1], "returned" >>}
    /\ steps' = steps + 1
    /\ UNCHANGED << players, state, bots, colorIndex, joined, botSeq, lastDt >>

NextArc == ArcIterate \/ ArcReturn

\* A call that has started keeps running.
SpecArc == InitArc /\ [][NextArc]_vars /\ WF_vars(NextArc)

-----------------------------------------------------------------------------
(* The spatial hash probed with one move and one trail segment             *)

\* The positions, previous positions and trail points the probes are drawn
\* from, around the corner << 300, 300 >> of the nine cells of a query from
\* the cell << 1, 1 >>.
ProbePositions == { << 199, 199 >>, << 150, 150 >> }

ProbePrevious == { << 270, 269 >>, << 250, 250 >>, << 199, 280 >>, << 120, 150 >> }

ProbeTrailPoints ==
    { << 301, 237 >>, << 237, 301 >>, << 280, 240 >>, << 240, 280 >>,
      << 199, 240 >>, << 160, 130 >>, << 330, 330 >>, << 100, 160 >> }

\* What the hash build and the collision detection read of two players:
\* the first has moved prev -> curr, the second owns the trail p1, p2.
ProbePlayers(prev, curr, p1, p2) ==
    << [ id |-> "h1", isDead |-> FALSE, x |-> curr[1], y |-> curr[2],
         prevX |-> prev[1], prevY |-> prev[2],
         trail |-> << >>, territory |-> << >> ],
       [ id |-> "h2", isDead |-> FALSE, x |-> p2[1], y |-> p2[2],
         prevX |-> p2[1], prevY |-> p2[2],
         trail |-> << p1, p2 >>, territory |-> << >> ] >>

\* Every move of the tick and every trail segment of the live players ps is
\* shorter than the cell size.
ShortSegments(ps) ==
    \A i \in 1..Len(ps) :
        ~ps[i].isDead =>
            /\ DistSq(PrevPos(ps[i]), << ps[i].x, ps[i].y >>) < CELL_SIZE * CELL_SIZE
            /\ \A k \in 1..(Len(ps[i].trail) - 1) :
                  DistSq(ps[i].trail[k], ps[i].trail[k + 1]) < CELL_SIZE * CELL_SIZE

\* The trail segments (owner id, 0-based index) the move of the player at
\* index me intersects, found by scanning every trail of the live players.
ScannedCrossings(ps, me) ==
    UNION { { << ps[o].id, k >> :
                k \in { k \in 0..(Len(ps[o].trail) - 2) :
                          segmentsIntersect(PrevPos(ps[me]), << ps[me].x, ps[me].y >>,
                                            ps[o].trail[k + 1], ps[o].trail[k + 2]) } } :
            o \in { o \in 1..Len(ps) : ~ps[o].isDead } }

\* The same among the items query(x, y) returns at the player's position.
QueriedCrossings(ps, me) ==
    LET nearby == SpatialQuery(ps, ps[me].x, ps[me].y)
    IN  { << nearby[n].playerId, nearby[n].index >> :
            n \in { n \in 1..Len(nearby) :
                      /\ nearby[n].type = "trail"
                      /\ segmentsIntersect(PrevPos(ps[me]), << ps[me].x, ps[me].y >>,
                                           nearby[n].p1, nearby[n].p2) } }

\* What the probe of the players ps gives for the first of them.
ProbeAnswer(ps) ==
    [ ps |-> ps, scanned |-> ScannedCrossings(ps, 1),
      queried |-> QueriedCrossings(ps, 1) ]

\* A move and a trail segment are drawn; log holds them.  No handler of
\* the room runs on a probe.
InitProbe ==
    /\ steps = MaxSteps
    /\ \E prev \in ProbePrevious, curr \in ProbePositions,
          p1 \in ProbeTrailPoints, p2 \in ProbeTrailPoints :
          RoomIs([NewRoom EXCEPT
                    !.log = {<< "probe", ProbePlayers(prev, curr, p1, p2) >>}])

\* The hash is built and queried, and the trail is scanned; log holds the
\* answers.
Probe ==
    /\ steps = MaxSteps
    /\ \E s \in log :
          /\ s[1] = "probe"
          /\ log' = {<< "probed", ProbeAnswer(s[2]) >>}
    /\ steps' = MaxSteps + 1
    /\ UNCHANGED << players, state, bots, colorIndex, joined, botSeq, lastDt >>

\* The duels of SpecDuel, and the probes.
InitHash == InitDuel \/ InitProbe

NextHash == Next \/ Probe

SpecHash == InitHash /\ [][NextHash]_vars

-----------------------------------------------------------------------------
(* Properties                                                              *)

Live == { i \in 1..Len(players) : ~players[i].isDead }

\* The handler that led to this state was a tick.
TickEnded == << "room", "tick" >> \in log

\* C1: a live player that is not outside its territory has an empty trail
\* and no exit point.
InsideHasNoTrail ==
    \A i \in Live :
        ~players[i].isOutside =>
            players[i].trail = << >> /\ players[i].exitPoint = NoPoint

\* A live player is back inside in the tick of its entry or loop closure.
InsideAfterReturn ==
    \E i \in Live :
        /\ ~players[i].isOutside
        /\ << players[i].id, "entry" >> \in log \/ << players[i].id, "loop" >> \in log

\* C2: a live player that is outside its territory has an exit point and a
\* trail of at least one point that starts at the exit point.
OutsideTrailStartsAtExit ==
    \A i \in Live :
        players[i].isOutside =>
            /\ players[i].exitPoint # NoPoint
            /\ Len(players[i].trail) >= 1
            /\ players[i].trail[1] = players[i].exitPoint

\* A live player is outside with a trail of several points.
OutsideWithTrail ==
    \E i \in Live : players[i].isOutside /\ Len(players[i].trail) > 1

\* C3: every live player's territory has at least 3 vertices, clockwise
\* winding (signed shoelace area >= 0) and an absolute area above 100.
TerritoryWellFormed ==
    \A i \in Live :
        /\ Len(players[i].territory) >= 3
        /\ getSignedPolygonArea2(players[i].territory) >= 0
        /\ Abs(getSignedPolygonArea2(players[i].territory)) > 2 * MIN_CAPTURE_AREA

\* C4: every player's score is the floor of the absolute area of its
\* territory.
ScoreIsArea ==
    \A i \in 1..Len(players) : players[i].score = FloorArea(players[i].territory)

\* A live player has committed a capture in this tick.
CaptureCommitted ==
    \E i \in Live :
        /\ << players[i].id, "commit" >> \in log
        /\ players[i].score # FloorArea(SeedTerritory(2500, 2500))

\* C5: no live player is farther than the arena radius from the arena
\* center (a player stands at its spawn point when it joins).
InsideArena ==
    \A i \in Live :
        DistSq(<< players[i].x, players[i].y >>, ArenaCenter)
            <= (WORLD_WIDTH \div 2) * (WORLD_WIDTH \div 2)

\* After a tick a live player stands on the clamp circle.
OnArenaEdge ==
    /\ TickEnded
    /\ \E i \in Live :
          DistSq(<< players[i].x, players[i].y >>, ArenaCenter)
              >= ClampRadius * ClampRadius

\* The largest turn of one movement update: PI * PLAYER_TURN_SPEED * dt, with
\* dt in 1/SERVER_TICK_RATE seconds.
MaxTurn(dt) == (PI * PLAYER_TURN_SPEED * dt) \div SERVER_TICK_RATE

\* C6 (as amended): a live player's heading angle is normalised into
\* [-PI, PI] at the start of a movement update and the turn is added after
\* that, so at the end of a tick it is within PI plus the largest turn of
\* that tick of zero.
AngleWithinOneTurn ==
    \A i \in Live : Abs(players[i].angle) <= PI + MaxTurn(lastDt)

\* C6 (as stated): every live player's heading angle lies in (-PI, PI].
AngleNormalized ==
    \A i \in Live : -PI < players[i].angle /\ players[i].angle <= PI

\* After a tick a live player's heading angle is outside (-PI, PI].
AngleOvershoots ==
    /\ TickEnded
    /\ \E i \in Live : players[i].angle > PI \/ players[i].angle <= -PI

\* C7: every dead player has an empty trail.
DeadHasNoTrail ==
    \A i \in 1..Len(players) : players[i].isDead => players[i].trail = << >>

\* A player whose trail was cut in this tick is dead.
KilledByCut ==
    \E i \in 1..Len(players) :
        players[i].isDead /\ << players[i].id, "cut" >> \in log

\* C8: a player that has won is not dead, and a step never takes hasWon
\* away from a player or makes a player that has won dead.
WinnerNeverDies ==
    /\ [](\A i \in 1..Len(players) : players[i].hasWon => ~players[i].isDead)
    /\ [][\A i \in 1..Len(players) :
            players[i].hasWon =>
                \A j \in 1..Len(players') :
                    players'[j].id = players[i].id =>
                        players'[j].hasWon /\ ~players'[j].isDead]_vars

\* After a tick a player that has won shares the room with a live player
\* that is outside its territory.
WinnerAmongRivals ==
    /\ TickEnded
    /\ \E i, j \in Live :
          /\ players[i].hasWon
          /\ i # j
          /\ ~players[j].hasWon
          /\ players[j].speed > 0

\* C9: at the end of every tick, every live player whose score has reached
\* the win threshold has hasWon, is not outside and has an empty trail.
WinLatchedAtThreshold ==
    TickEnded =>
        \A i \in Live :
            players[i].score >= WIN_THRESHOLD =>
                /\ players[i].hasWon
                /\ ~players[i].isOutside
                /\ players[i].trail = << >>

\* The move segment of the player at index b crosses a segment of the trail
\* of the player at index a.
CrossesTrailOf(b, a) ==
    \E k \in 1..(Len(players[a].trail) - 1) :
        segmentsIntersect(<< players[b].prevX, players[b].prevY >>,
                          << players[b].x, players[b].y >>,
                          players[a].trail[k], players[a].trail[k + 1])

\* C10: at the end of a tick no live player A that is still drawing a trail
\* has a segment of that trail crossed by the move segment of another live
\* player B that has not won and did not capture in this tick (A would be
\* dead), whether B is inside or outside its own territory.
ForeignTrailKill ==
    TickEnded =>
        \A a, b \in Live :
            ( /\ a # b
              /\ players[a].isOutside
              /\ ~players[b].hasWon
              /\ << players[b].id, "commit" >> \notin log
              /\ players[b].speed > 0 )
            => ~CrossesTrailOf(b, a)

\* In the players ps, the move segment of the player at index b crosses a
\* segment of the trail of the player at index a.
CrossesIn(ps, b, a) ==
    \E k \in 1..(Len(ps[a].trail) - 1) :
        segmentsIntersect(PrevPos(ps[b]), << ps[b].x, ps[b].y >>,
                          ps[a].trail[k], ps[a].trail[k + 1])

\* Every two live players of ps (the players after the integration of a
\* tick) whose move segments cross each other's trail are both dead in
\* after (the players at the end of that tick).
MutualDead(ps, after) ==
    \A a, b \in 1..Len(ps) :
        ( /\ a # b
          /\ ~ps[a].isDead /\ ~ps[b].isDead
          /\ ps[a].isOutside /\ ps[b].isOutside
          /\ CrossesIn(ps, b, a)
          /\ CrossesIn(ps, a, b) )
        => (after[a].isDead /\ after[b].isDead)

\* C11: if in one tick live player A's move segment crosses a trail segment
\* of live player B and B's move segment crosses a trail segment of A, both
\* A and B are dead at the end of that tick, whatever their order in the
\* player map.
MutualCrossingKillsBoth ==
    [][TickEnded' => MutualDead(GameUpdate(players, lastDt'), players')]_vars

\* Every live player of ps (the players after the integration of a tick)
\* that closes its trail in this tick, being outside with a trail of more
\* than two points and standing inside its own territory, is alive in
\* after (the players at the end of that tick).
ClosersSurvive(ps, after) ==
    \A b \in 1..Len(ps) :
        ( /\ ~ps[b].isDead
          /\ ps[b].isOutside
          /\ Len(ps[b].trail) > ENTRY_MIN_TRAIL
          /\ isPointInPolygon(<< ps[b].x, ps[b].y >>, ps[b].territory) )
        => ~after[b].isDead

\* C12: within a tick the capture processing of every player completes
\* before any player's collision check, so a player who closes its trail in
\* a tick is not killed through that trail by a collision check of the same
\* tick.
CaptureBeforeCollision ==
    [][TickEnded' => ClosersSurvive(GameUpdate(players, lastDt'), players')]_vars

\* The players of a tick's outcome whose entry capture committed in it.
EntryCommitted(evs) ==
    { id \in HumanIds \cup { BotIdTab[k] : k \in 1..Len(BotIdTab) } :
        << id, "entry" >> \in evs /\ << id, "commit" >> \in evs }

\* C13: after any committed entry-based capture (the tunneling fallback and
\* a trail started by the fallback exit included) the area of the new
\* territory is at least the area of the territory before the commit.
EntryCaptureNeverShrinks ==
    [][\A i \in 1..Len(players) :
          players[i].id \in EntryCommitted(log')
          => Abs(getSignedPolygonArea2(players'[i].territory))
               >= Abs(getSignedPolygonArea2(players[i].territory))]_vars

\* The player at index i of ps has the event e in the events evs.
Did(ps, i, e, evs) == << ps[i].id, e >> \in evs

\* C14: an open-space loop closure commits only when the floor of the new
\* area is strictly greater than the old score; otherwise it leaves the
\* territory and the score as they were.
LoopCommitsOnlyOnGrowth ==
    [][\A i \in 1..Len(players) :
          Did(players, i, "loop", log') =>
              IF Did(players, i, "commit", log')
              THEN /\ FloorArea(players'[i].territory) > players[i].score
                   /\ players'[i].score = FloorArea(players'[i].territory)
              ELSE /\ players'[i].territory = players[i].territory
                   /\ players'[i].score = players[i].score]_vars

\* A loop closure has just been rejected.
LoopRejected ==
    \E i \in Live : Did(players, i, "loop", log) /\ Did(players, i, "reject", log)

\* In a tick with the events evs from the players before (mid after the
\* integration, cc the outcome of the capture and collision pass, after the
\* players at its end), every player whose capture attempt was rejected
\* keeps its territory and score, is granted no invulnerability, has no
\* territory change flagged and is alive.
RejectKeeps(before, mid, cc, after, evs) ==
    \A i \in 1..Len(before) :
        Did(before, i, "reject", evs) =>
            /\ after[i].territory = before[i].territory
            /\ after[i].score = before[i].score
            /\ after[i].invulnerableTimer = mid[i].invulnerableTimer
            /\ after[i].invulnerableTimer <= 0
            /\ ~cc.ps[i].territoryChanged
            /\ ~after[i].isDead

DebounceKeeps(before, mid, cc, after) ==
    \A i \in 1..Len(before) :
        ( /\ ~mid[i].isDead
          /\ mid[i].isOutside
          /\ Len(mid[i].trail) \in 1..ENTRY_MIN_TRAIL
          /\ isPointInPolygon(<< mid[i].x, mid[i].y >>, mid[i].territory) )
        => /\ after[i].territory = before[i].territory
           /\ after[i].score = before[i].score
           /\ after[i].invulnerableTimer = mid[i].invulnerableTimer
           /\ ~cc.ps[i].territoryChanged

\* C17: when a player that is outside is found inside its own territory
\* with a trail of one or two points, no capture is computed: territory,
\* score, invulnerableTimer and territoryChanged are unchanged.
EntryDebounce ==
    [][TickEnded' =>
          DebounceKeeps(players, GameUpdate(players, lastDt'),
                        checkCaptureAndCollisions(GameUpdate(players, lastDt')),
                        players')]_vars

\* A player has just been found inside its own territory, outside and with
\* a trail of at most two points.
Debounced ==
    \E i \in Live :
        /\ Did(players, i, "debounce", log)
        /\ players[i].isOutside
        /\ Len(players[i].trail) \in 1..ENTRY_MIN_TRAIL
        /\ isPointInPolygon(<< players[i].x, players[i].y >>, players[i].territory)

\* C18: every commit of a capture sets invulnerableTimer to 0.5 s, and
\* while the timer is positive no exit is detected: every live player with
\* invulnerableTimer > 0 has isOutside = false and an empty trail.
InvulnerableIsInside ==
    \A i \in Live :
        /\ (TickEnded /\ Did(players, i, "commit", log))
             => players[i].invulnerableTimer = INVULNERABLE_TIME
        /\ players[i].invulnerableTimer > 0
             => (~players[i].isOutside /\ players[i].trail = << >>)

\* A player whose timer still runs stands outside its own territory.
InvulnerableBeyondBorder ==
    \E i \in Live :
        /\ players[i].invulnerableTimer > 0
        /\ ~isPointInPolygon(<< players[i].x, players[i].y >>, players[i].territory)

\* The 0-based indices of the segments of the player's own trail that its
\* move segment crosses.
SelfCrossings(player) ==
    { k \in 0..(Len(player.trail) - 2) :
        segmentsIntersect(PrevPos(player), << player.x, player.y >>,
                          player.trail[k + 1], player.trail[k + 2]) }

\* The player stands outside its own territory and not within
\* NEAR_EXIT_DISTANCE of its exit point.
SelfHitAllowed(player) ==
    /\ ~isPointInPolygon(<< player.x, player.y >>, player.territory)
    /\ \/ player.exitPoint = NoPoint
       \/ DistSq(<< player.x, player.y >>, player.exitPoint)
            >= NEAR_EXIT_DISTANCE * NEAR_EXIT_DISTANCE

\* The indices of the player's trail segments that its spatial query
\* returns.
QueriedTrail(player) ==
    LET cells == QueryCells(player.x, player.y)
    IN  NearTrail(player, { cells[k] : k \in 1..9 })

\* In a tick with the events evs, from the players mid after the
\* integration to the players after: a self-collision kills only through a
\* crossed own segment more than SELF_INDEX_GAP behind the head, outside
\* the territory and away from the exit point; and when the collision check
\* of a player is given such a segment by the spatial query, it dies.
SelfHitRule(mid, after, evs) ==
    \A i \in 1..Len(mid) :
        /\ Did(mid, i, "selfHit", evs) =>
              /\ SelfHitAllowed(mid[i])
              /\ \E k \in SelfCrossings(mid[i]) : Len(mid[i].trail) - k > SELF_INDEX_GAP
        /\ ( /\ Did(mid, i, "collisionCheck", evs)
             /\ Did(mid, i, "exit", evs) = FALSE
             /\ SelfHitAllowed(mid[i])
             /\ \E k \in SelfCrossings(mid[i]) \cap QueriedTrail(mid[i]) :
                    Len(mid[i].trail) - k > SELF_INDEX_GAP )
           => (after[i].isDead /\ Did(mid, i, "selfHit", evs))

\* C19: a self-collision kill happens only if the move segment crosses an
\* own trail segment with index i such that trail.length - i > 20, the
\* position is outside the own territory and not within 100 units of the
\* exit point; when all hold for a segment the spatial query returns, the
\* player is killed; crossing one of the last 20 segments never kills.
SelfCollisionRule ==
    [][TickEnded' => SelfHitRule(GameUpdate(players, lastDt'), players', log')]_vars

\* A player has just been killed by its own trail.
KilledByOwnTrail ==
    \E i \in 1..Len(players) : Did(players, i, "selfHit", log) /\ players[i].isDead

\* In a tick from the players before (mid after the integration) to the
\* players after, every player that dies has a segment of its trail
\* crossed by the move segment of a live player.
DeathsCrossTrails(before, mid, after) ==
    \A i \in 1..Len(before) :
        (~before[i].isDead /\ after[i].isDead)
        => \E j \in 1..Len(mid) : ~mid[j].isDead /\ CrossesIn(mid, j, i)

CrossesTerritoryOf(b, a) ==
    \E k \in 1..Len(players[a].territory) :
        segmentsIntersect(PrevPos(players[b]), << players[b].x, players[b].y >>,
                          players[a].territory[k],
                          players[a].territory[NextIdx(k, Len(players[a].territory))])

Frozen(player) ==
    << player.x, player.y, player.angle, player.targetAngle, player.speed,
       player.territory, player.score, player.hasWon, player.trail >>

\* C21: dead is terminal: once isDead is true it never becomes false, and
\* while a player is dead its position, angle, targetAngle, speed,
\* territory, score, hasWon and (empty) trail never change, whatever
\* handler runs; a dead player only leaves the player map.
DeadIsTerminal ==
    [][\A i \in 1..Len(players) :
          (players[i].isDead /\ IndexOfId(players', players[i].id) # 0)
          => /\ players'[IndexOfId(players', players[i].id)].isDead
             /\ Frozen(players'[IndexOfId(players', players[i].id)]) = Frozen(players[i])
             /\ players[i].trail = << >>]_vars

\* A player has been dead through a tick.
DeadThroughTick ==
    \E i \in 1..Len(players) :
        /\ players[i].isDead
        /\ players[i].deathTimer > 0
        /\ TickEnded

\* The player after an input with the angle a, as the claim states it.
AfterInput(player, a) ==
    IF player.isDead THEN player
    ELSE [player EXCEPT !.targetAngle = a,
                        !.speed = IF player.speed = 0 THEN PLAYER_SPEED ELSE player.speed]

\* The step is an input of the client id with the angle a: nothing but the
\* target angle and the speed of that player, if it is alive, changes.
InputFrame(id, a) ==
    /\ players' = [i \in 1..Len(players) |->
                      IF players[i].id = id THEN AfterInput(players[i], a)
                      ELSE players[i]]
    /\ UNCHANGED << state, bots, colorIndex, joined, botSeq, lastDt >>

\* C22: an input on a live player sets targetAngle and, if speed is 0, sets
\* speed to PLAYER_SPEED, changing nothing else; on a dead player or an
\* unknown id it changes no state.
InputSetsTargetOnly ==
    /\ [][\A id \in HumanIds :
             log' = {<< id, "input" >>} => \E a \in InputAngles : InputFrame(id, a)]_vars
    /\ [](\A id \in HumanIds, a \in InputAngles :
             IndexOfId(players, id) = 0 => setPlayerInput(players, id, a) = players)

\* The first input of a live player has just started it.
FirstInputTaken ==
    \E i \in Live :
        /\ log = {<< players[i].id, "input" >>}
        /\ players[i].speed = PLAYER_SPEED
        /\ players[i].prevX = Undefined
        /\ players[i].targetAngle # 0

\* In a tick of dt from the players before to the players after, every
\* live player has turned from its heading towards the target angle it had
\* when the tick began.
TurnsToTarget(before, after, dt) ==
    \A i \in 1..Len(before) :
        (~before[i].isDead /\ IndexOfId(after, before[i].id) # 0)
        => after[IndexOfId(after, before[i].id)].angle
             = NormalizeAngle(before[i].angle)
               + RoundDiv(NormalizeDiff(before[i].targetAngle - NormalizeAngle(before[i].angle))
                            * PLAYER_TURN_SPEED * dt,
                          SERVER_TICK_RATE)

\* C23: input coalescing: the integration of a tick uses, for each player,
\* the last target angle received before the tick began; an earlier input
\* of the same interval has no effect: the room after two inputs of a
\* client is the room after the second one alone.
InputsCoalesce ==
    /\ [](\A id \in DOMAIN state, a \in InputAngles, b \in InputAngles :
             onInput(onInput(Room, id, a), id, b) = onInput(Room, id, b))
    /\ [][TickEnded' => TurnsToTarget(players, players', lastDt')]_vars

\* In its first tick, one step from its spawn point at the arena center, a
\* player turns towards 90, the input that followed its input 0.
TurnsToSecondInput ==
    /\ TickEnded
    /\ steps = MaxSteps
    /\ \E i \in Live :
          /\ players[i].targetAngle = 90
          /\ players[i].angle > 0 /\ players[i].angle < 90
          /\ players[i].prevX = WORLD_WIDTH \div 2
          /\ players[i].prevY = WORLD_HEIGHT \div 2

\* The player, the PlayerState and the brain of id are all gone from r.
GoneFrom(r, id) ==
    /\ IndexOfId(r.players, id) = 0
    /\ id \notin DOMAIN r.state
    /\ \A k \in 1..Len(r.bots) : r.bots[k].playerId # id

\* The player, the PlayerState and the brain of id are all in r.
InRoom(r, id) ==
    /\ IndexOfId(r.players, id) # 0
    /\ id \in DOMAIN r.state
    /\ \E k \in 1..Len(r.bots) : r.bots[k].playerId = id

Gone(id) == GoneFrom(Room, id)

\* C24: deletion lifecycle.  A bot leaves the room (bot table, player map
\* and room state) exactly in the first tick whose physics update takes the
\* deathTimer of its dead player above 1.0 s, and in no other step; so, as
\* ticks keep running, every dead bot is eventually removed.  A human leaves
\* the player map and the room state exactly in the step in which it
\* disconnects, never in a tick.
DeletionLifecycle ==
    /\ [][\A i \in 1..Len(players) :
            (IsBotId(players[i].id) /\ InRoom(Room, players[i].id))
            => IF /\ TickEnded'
                  /\ players[i].isDead
                  /\ players[i].deathTimer + lastDt' > BOT_REMOVAL_TIME
               THEN GoneFrom(Room', players[i].id)
               ELSE InRoom(Room', players[i].id)]_vars
    /\ [][\A id \in HumanIds :
            (IndexOfId(players, id) # 0 /\ id \in DOMAIN state)
            => IF log' = {<< id, "leave" >>}
               THEN IndexOfId(players', id) = 0 /\ id \notin DOMAIN state'
               ELSE IndexOfId(players', id) # 0 /\ id \in DOMAIN state']_vars
    /\ \A id \in BotIds : DeadBot(id) ~> Gone(id)

\* A tick has just removed BOT_a, while a dead human is still in the room
\* or not: BOT_b and the humans stay.
DeadBotRemoved ==
    /\ TickEnded
    /\ botSeq = 2
    /\ Gone("BOT_a")
    /\ InRoom(Room, "BOT_b")
    /\ IndexOfId(players, "h1") # 0

Humans == { i \in 1..Len(players) : ~IsBotId(players[i].id) }

\* What a run of the bot manager has to add to the bot table.
BotsMissing ==
    IF Cardinality(Humans) >= 3 THEN 0
    ELSE IF Cardinality(Humans) + Len(bots) >= 4 THEN 0
    ELSE 4 - (Cardinality(Humans) + Len(bots))

\* C25: every run of the bot manager adds exactly
\* max(0, 4 - (humans + bots)) bots when there are fewer than 3 humans and
\* none otherwise, and keeps every bot and every player there was; there
\* are never more than 4 bots.
BotManagerTopsUp ==
    /\ [](Len(bots) <= 4)
    /\ [][log' = {<< "room", "manageBots" >>}
          => /\ Len(bots') = Len(bots) + BotsMissing
             /\ Len(players') = Len(players) + BotsMissing
             /\ SubSeq(bots', 1, Len(bots)) = bots
             /\ SubSeq(players', 1, Len(players)) = players
             /\ \A k \in (Len(bots) + 1)..Len(bots') :
                   /\ IndexOfId(players, bots'[k].playerId) = 0
                   /\ IndexOfId(players', bots'[k].playerId) # 0
                   /\ bots'[k].playerId \in DOMAIN state']_vars

\* After the removal of BOT_a the manager has spawned one bot, the third
\* of the room, next to the two humans and BOT_b.
BotReplaced ==
    /\ log = {<< "room", "manageBots" >>}
    /\ botSeq = 3
    /\ Len(bots) = 2
    /\ Cardinality(Humans) = 2

\* The flat array [x0, y0, x1, y1, ...] of a list of points, element by
\* element.
IsFlatOf(flat, points) ==
    /\ Len(flat) = 2 * Len(points)
    /\ \A k \in 1..Len(points) :
          flat[2 * k - 1] = points[k][1] /\ flat[2 * k] = points[k][2]

Projected(playerState, player) ==
    /\ playerState.x = player.x
    /\ playerState.y = player.y
    /\ playerState.angle = player.angle
    /\ playerState.isDead = player.isDead
    /\ playerState.hasWon = player.hasWon
    /\ playerState.score = player.score
    /\ IsFlatOf(playerState.trail, player.trail)
    /\ IsFlatOf(playerState.territory, player.territory)

\* C26: at the end of every tick the PlayerState of every player has the
\* player's x, y, angle, isDead, hasWon and score, and its flat trail and
\* territory are the flattening of the player's; every player of the map
\* has a PlayerState; a player killed in the tick is reported dead with an
\* empty trail in that tick's snapshot.
ProjectionFaithful ==
    /\ [](TickEnded
           => \A i \in 1..Len(players) :
                 /\ players[i].id \in DOMAIN state
                 /\ Projected(state[players[i].id], players[i]))
    /\ [][TickEnded'
          => \A i \in 1..Len(players) :
                \A j \in 1..Len(players') :
                    (players'[j].id = players[i].id
                        /\ ~players[i].isDead /\ players'[j].isDead)
                    => /\ state'[players[i].id].isDead
                       /\ state'[players[i].id].trail = << >>]_vars

\* A tick has just killed a player, and the snapshot says so.
KilledAndProjected ==
    /\ TickEnded
    /\ \E i \in 1..Len(players) :
          /\ players[i].isDead
          /\ players[i].deathTimer = 0
          /\ state[players[i].id].isDead
          /\ state[players[i].id].trail = << >>

\* The test of syncState on a PlayerState and its player as the capture
\* and collision pass left it.
MustResync(playerState, player) ==
    Len(playerState.territory) # 2 * Len(player.territory) \/ player.territoryChanged

\* syncState from the players pre (the outcome of the capture and
\* collision pass) and the room state st to the players after and the room
\* state st2, in a tick with the events evs.
TerritorySync(pre, st, after, st2, evs) ==
    \A i \in 1..Len(pre) :
        /\ after[i].id = pre[i].id
        /\ ~after[i].territoryChanged
        /\ IF MustResync(st[pre[i].id], pre[i])
           THEN /\ IsFlatOf(st2[pre[i].id].territory, pre[i].territory)
                /\ Did(pre, i, "commit", evs)
           ELSE st2[pre[i].id].territory = st[pre[i].id].territory

\* C27: in a tick syncState rewrites the projected territory of a player
\* exactly when its flat length differs from 2 * |territory| or the
\* territoryChanged hint is set, and leaves it as it was otherwise; after
\* the sync the hint of every player is false, and a territory is rewritten
\* only in a tick that committed a capture of that player.
TerritoryResync ==
    [][TickEnded'
        => \A pre \in {checkCaptureAndCollisions(GameUpdate(players, lastDt')).ps} :
              TerritorySync(pre, state, players', state', log')]_vars

\* A tick has committed a capture: the new territory of the player, no
\* longer the seed, has just been projected and the hint is cleared.
TerritoryResent ==
    /\ TickEnded
    /\ \E i \in Live :
          /\ Did(players, i, "commit", log)
          /\ ~players[i].territoryChanged
          /\ Len(players[i].territory) # 32
          /\ IsFlatOf(state[players[i].id].territory, players[i].territory)

\* The vertices of polygon met walking forward from the end of edge
\* `from` (0-based) to the start of edge `to`; all of them when from = to
\* and whole is set.
Walk(polygon, from, to, whole) ==
    [k \in 1..(IF from = to THEN (IF whole THEN Len(polygon) ELSE 0)
                ELSE (to - from) % Len(polygon)) |->
        polygon[((from + k) % Len(polygon)) + 1]]

\* The two candidates of a capture whose trail polyline is head.
FirstCandidate(territory, head, exitEdge, entryEdge) ==
    head \o Reverse(Walk(territory, exitEdge, entryEdge, FALSE))

SecondCandidate(territory, head, exitEdge, entryEdge) ==
    head \o Walk(territory, entryEdge, exitEdge, TRUE)

\* result is the candidate of larger absolute shoelace area, the second on
\* a tie, and starts with the polyline head.
IsLargerOf(result, a, b, head) ==
    /\ result = IF Abs(getSignedPolygonArea2(a)) > Abs(getSignedPolygonArea2(b))
                THEN a ELSE b
    /\ SubSeq(result, 1, Len(head)) = head

CaptureChoice(territory, trail, exitPoint, exitEdge, entryPoint, entryEdge) ==
    \A head \in {<< exitPoint >> \o trail \o << entryPoint >>} :
        IsLargerOf(computeCapture(territory, trail, exitPoint, exitEdge,
                                  entryPoint, entryEdge),
                   FirstCandidate(territory, head, exitEdge, entryEdge),
                   SecondCandidate(territory, head, exitEdge, entryEdge),
                   head)

\* The entry edges tried for a player that is outside: its exit edge, the
\* two next to it and the one opposite.
EntryEdges(player) ==
    { (player.exitEdgeIndex + d) % Len(player.territory) :
        d \in {0, 1, Len(player.territory) - 1, Len(player.territory) \div 2} }

\* A square entered opposite the exit through its middle: the candidates
\* have the same area.
TieSquare == << << 0, 0 >>, << 4, 0 >>, << 4, 4 >>, << 0, 4 >> >>

CrossIsExact(a, b, c, d) ==
    /\ Fl(a * b) = a * b
    /\ Fl(c * d) = c * d
    /\ Fl(a * b - c * d) = a * b - c * d

\* getSegmentIntersection(A, B, C, D) rounds nothing.
OrderIsExact(A, B, C, D) ==
    /\ \A v \in { D[2] - C[2], B[1] - A[1], D[1] - C[1], B[2] - A[2],
                   A[2] - C[2], A[1] - C[1] } : Fl(v) = v
    /\ CrossIsExact(D[2] - C[2], B[1] - A[1], D[1] - C[1], B[2] - A[2])
    /\ CrossIsExact(D[1] - C[1], A[2] - C[2], D[2] - C[2], A[1] - C[1])
    /\ CrossIsExact(B[1] - A[1], A[2] - C[2], B[2] - A[2], A[1] - C[1])

\* None of the three orders rounds anything.
NothingRounded(q) ==
    /\ OrderIsExact(q[1], q[2], q[3], q[4])
    /\ OrderIsExact(q[2], q[1], q[3], q[4])
    /\ OrderIsExact(q[3], q[4], q[1], q[2])

AllAgree(t) == t[1] = t[2] /\ t[2] = t[3]

-----------------------------------------------------------------------------
\* The points findSpawnPosition samples.
SpawnCandidates == { SpawnPoint(d) : d \in SpawnDraws }

\* c lies inside the territory of a live player of ps.
InsideLive(ps, c) ==
    \E i \in 1..Len(ps) : ~ps[i].isDead /\ isPointInPolygon(c, ps[i].territory)

\* c is nearer than startingTerritoryRadius + 100 to a vertex of a live
\* territory of ps.
NearLive(ps, c) ==
    \E i \in 1..Len(ps) :
        /\ ~ps[i].isDead
        /\ \E k \in 1..Len(ps[i].territory) :
              DistSq(c, ps[i].territory[k]) < (SeedRadius + 100) * (SeedRadius + 100)

\* p is a place at which a player can be spawned among ps: accepted by the
\* first phase, or by the relaxation phase after a first-phase rejection,
\* or the arena center after rejections in both phases.
Placed(ps, p) ==
    \/ ~InsideLive(ps, p) /\ ~NearLive(ps, p)
    \/ /\ ~InsideLive(ps, p)
       /\ \E c \in SpawnCandidates : InsideLive(ps, c) \/ NearLive(ps, c)
    \/ /\ p = ArenaCenter
       /\ \E c \in SpawnCandidates : InsideLive(ps, c) \/ NearLive(ps, c)
       /\ \E c \in SpawnCandidates : InsideLive(ps, c)

\* C31: every player a join or the bot manager adds is spawned at a point
\* that the first phase accepted (inside no live territory and at least
\* startingTerritoryRadius + 100 from every live vertex), or that the
\* relaxation phase accepted (inside no live territory) after a rejection,
\* or at the arena center after rejections in both phases; and a sampled
\* point that no live player blocks can be returned whatever dead players'
\* territories cover it.
SpawnPlacement ==
    [][ /\ \A k \in (Len(players) + 1)..Len(players') :
              Placed(SubSeq(players', 1, k - 1), << players'[k].x, players'[k].y >>)
        /\ \A c \in SpawnCandidates :
              ~InsideLive(players, c) /\ ~NearLive(players, c)
                  => c \in findSpawnPosition(players) ]_vars

\* The bot manager has spawned a bot inside the territory of a dead
\* player, and another within startingTerritoryRadius + 100 of a live one.
SpawnedOverDead ==
    /\ << "room", "manageBots" >> \in log
    /\ \E i, j \in 1..Len(players) :
          /\ players[j].isDead /\ ~players[i].isDead /\ j < i
          /\ isPointInPolygon(<< players[i].x, players[i].y >>, players[j].territory)
    /\ \E i \in 1..Len(players) :
          NearLive(SubSeq(players, 1, i - 1), << players[i].x, players[i].y >>)

-----------------------------------------------------------------------------
\* An exit is due for the player as the capture phase finds it: alive, not
\* outside, standing outside its own territory, no grace period running.
ExitDue(player) ==
    /\ ~player.isDead
    /\ ~player.isOutside
    /\ ~isPointInPolygon(<< player.x, player.y >>, player.territory)
    /\ player.invulnerableTimer <= 0

\* after is the player mid once its exit was taken: outside, with the exit
\* point as its whole trail, the exit point and edge being the first
\* boundary intersection of its move or, without one, the previous
\* position and edge 0.
ExitedFrom(mid, after) ==
    /\ ~after.isDead
    /\ after.isOutside
    /\ after.trail = << after.exitPoint >>
    /\ \A hit \in { findBoundaryIntersection(PrevPos(mid), << mid.x, mid.y >>,
                                              mid.territory) } :
          IF hit # NoHit
          THEN after.exitPoint = hit.point /\ after.exitEdgeIndex = hit.edgeIndex
          ELSE after.exitPoint = PrevPos(mid) /\ after.exitEdgeIndex = 0

\* In a tick from the players mid after the integration to the players
\* after, every player in due for which an exit is due has exited.
ExitsTaken(mid, after, due) ==
    \A i \in due :
        ExitDue(mid[i]) =>
            \E j \in 1..Len(after) :
                after[j].id = mid[i].id /\ ExitedFrom(mid[i], after[j])

\* C32: whenever the capture phase finds a live player not outside, at a
\* position outside its own territory and with no grace period running, the
\* player ends the tick outside with trail = [exitPoint], exitPoint and
\* exitEdgeIndex being the first boundary intersection of prev->curr or,
\* when there is none, the previous position and 0.
ExitWhenDue ==
    [][TickEnded' =>
          \A mid \in { GameUpdate(players, lastDt') } :
              ExitsTaken(mid, players', 1..Len(mid))]_vars

\* The same for the players whose score is below the win threshold: the
\* win condition puts a player at or above it back inside in the same
\* pass.
ExitWhenDueBelowWin ==
    [][TickEnded' =>
          \A mid \in { GameUpdate(players, lastDt') } :
              ExitsTaken(mid, players',
                         { i \in 1..Len(mid) : mid[i].score < WIN_THRESHOLD })]_vars

\* A player has just left its territory without crossing an edge of it and
\* is outside, its trail being its previous position.
ExitedByFallback ==
    /\ TickEnded
    /\ \E i \in Live :
          /\ Did(players, i, "exitFallback", log)
          /\ players[i].isOutside
          /\ players[i].trail = << PrevPos(players[i]) >>
          /\ players[i].exitEdgeIndex = 0

\* A player at the win threshold has just left its territory and is not
\* outside.
WinnerExitUndone ==
    /\ TickEnded
    /\ \E i \in Live :
          /\ Did(players, i, "exit", log)
          /\ Did(players, i, "win", log)
          /\ ~players[i].isOutside

-----------------------------------------------------------------------------
\* The vertices poly[(s+1) mod n], ..., poly[e] in forward order.
ForwardArc(polygon, s, e) ==
    [k \in 1..((e - s) % Len(polygon)) |-> polygon[((s + k) % Len(polygon)) + 1]]

\* C33: for a polygon of n vertices and edge indices 0 <= s, e < n, the
\* loop of extractBoundaryArc ends, and what it returns is exactly the
\* vertices poly[(s+1) mod n], ..., poly[e] in forward order: (e - s) mod n
\* of them, none when s = e.
ArcIsForwardWalk ==
    /\ [](\A c \in log :
            c[2] = "returned" =>
                /\ c[1].arc = ForwardArc(c[1].polygon, c[1].startEdgeIndex,
                                         c[1].endEdgeIndex)
                /\ Len(c[1].arc) = (c[1].endEdgeIndex - c[1].startEdgeIndex)
                                      % Len(c[1].polygon)
                /\ c[1].startEdgeIndex = c[1].endEdgeIndex => c[1].arc = << >>
                /\ c[1].arc = extractBoundaryArc(c[1].polygon, c[1].startEdgeIndex,
                                                 c[1].endEdgeIndex))
    /\ <>(\E c \in log : c[2] = "returned")

\* A walk from a later edge to an earlier one has returned: it went round
\* the end of the vertex array and collected three vertices or more.
ArcWrappedAround ==
    \E c \in log :
        /\ c[2] = "returned"
        /\ c[1].endEdgeIndex < c[1].startEdgeIndex
        /\ Len(c[1].arc) >= 3
        /\ c[1].arc[Len(c[1].arc)] = c[1].polygon[c[1].endEdgeIndex + 1]

-----------------------------------------------------------------------------
\* C34: after any capture commit (entry-based or loop closure) the
\* committed territory has at most 400 vertices.
VertexCap ==
    TickEnded =>
        \A i \in 1..Len(players) :
            Did(players, i, "commit", log)
                => Len(players[i].territory) <= MAX_TERRITORY_VERTICES

-----------------------------------------------------------------------------
\* The bot at index k of the bot table stays in wander mode: its player is
\* alive, away from the arena edge, not returning and without a long trail.
InWanderMode(k) ==
    \E i \in 1..Len(players) :
        /\ players[i].id = bots[k].playerId
        /\ ~players[i].isDead
        /\ ~bots[k].isReturning
        /\ ~(Len(players[i].trail) > BOT_RETURN_TRAIL)
        /\ DistSq(<< players[i].x, players[i].y >>, ArenaCenter)
              < ((WORLD_WIDTH \div 2) - BOT_EDGE_MARGIN - 2 * PLAYER_SPEED)
                * ((WORLD_WIDTH \div 2) - BOT_EDGE_MARGIN - 2 * PLAYER_SPEED)

\* The bot takes a decision in this tick and ends it with a fresh cooldown
\* in its timer: it has picked a new heading.
PicksHeading(k) ==
    /\ k <= Len(bots')
    /\ bots'[k].playerId = bots[k].playerId
    /\ bots[k].aiUpdateTimer + lastDt' >= AI_UPDATE_INTERVAL
    /\ bots'[k].changeDirTimer \in { rnd.cooldown : rnd \in BotRnd }

\* C35: after a wandering bot has picked a heading and drawn a cooldown
\* (here 0.5 s, the shortest), it picks no new heading before that much
\* simulated time has elapsed, and it picks one at its first decision
\* after that, as long as it stays in wander mode.
WanderCooldownElapses ==
    [][ \A k \in 1..Len(bots) :
            InWanderMode(k) =>
                /\ steps' < WanderCooldown => ~PicksHeading(k)
                /\ ( /\ steps' >= WanderCooldown
                     /\ bots[k].aiUpdateTimer + lastDt' >= AI_UPDATE_INTERVAL )
                   => PicksHeading(k) ]_vars

-----------------------------------------------------------------------------
\* Every player of before that is alive there and dead in after is
\* flagged outside (killPlayer leaves the flag as it is, and a dead player
\* is not touched again in the pass).
DiedOutside(before, after) ==
    \A i \in 1..Len(before), j \in 1..Len(after) :
        ( /\ after[j].id = before[i].id
          /\ ~before[i].isDead
          /\ after[j].isDead )
        => after[j].isOutside

\* C36: a player is only ever killed while its isOutside flag is true,
\* by a self-collision or as the victim of a cut: a live player that is
\* not outside (inside, in its grace period, or having closed its trail
\* earlier in the tick) does not die, and no handler other than the tick
\* kills.
KilledOnlyOutside ==
    [][DiedOutside(players, players')]_vars

\* A player has closed its trail and committed in this tick, is inside and
\* alive, and a player checked after it has moved across the boundary that
\* trail has become, cutting nobody.
ClosedTrailCrossed ==
    /\ TickEnded
    /\ \E a, b \in Live :
          /\ a < b
          /\ Did(players, a, "entry", log) /\ Did(players, a, "commit", log)
          /\ ~players[a].isOutside
          /\ Did(players, b, "collisionCheck", log)
          /\ CrossesTerritoryOf(b, a)
          /\ \A id \in HumanIds : << id, "cut" >> \notin log

-----------------------------------------------------------------------------
\* The player's exit edge is an edge of its territory.
ExitEdgeOf(player) ==
    player.exitEdgeIndex \in 0..(Len(player.territory) - 1)

\* From the players before a step to the players after it, a territory
\* changes only by a commit reported in evs, which leaves the player
\* inside with no trail and no exit edge.
ChangesAtCommit(before, after, evs) ==
    \A i \in 1..Len(before), j \in 1..Len(after) :
        (after[j].id = before[i].id /\ after[j].territory # before[i].territory)
        => /\ << after[j].id, "commit" >> \in evs
           /\ ~after[j].isOutside
           /\ after[j].trail = << >>
           /\ after[j].exitEdgeIndex = -1

\* C37: whenever a live player is outside, 0 <= exitEdgeIndex < |territory|
\* for its current territory, the territory changing only at a commit,
\* which also ends the trail; so computeCapture is always called with an
\* exit edge of the territory it walks.
ExitEdgeValid ==
    /\ [](\A i \in Live : players[i].isOutside => ExitEdgeOf(players[i]))
    /\ [][ChangesAtCommit(players, players', log')]_vars

\* A player that has captured before is outside its grown territory, and
\* its exit edge is not edge 0.
OutsideGrownTerritory ==
    \E i \in Live :
        /\ players[i].isOutside
        /\ Len(players[i].territory) # SeedSegments
        /\ players[i].exitEdgeIndex > 0
        /\ Len(players[i].trail) > 0

-----------------------------------------------------------------------------
\* The ids of the players of the game state.
GameIds == { players[i].id : i \in 1..Len(players) }

\* C38: after every join, leave, bot spawn and tick, in any interleaving,
\* the set of player ids in the game state equals the set of ids in the
\* projected room state, no id occurs twice, and every id in the bot-brain
\* table is a BOT_-prefixed id present in the game state.
IdSetsConsistent ==
    /\ GameIds = DOMAIN state
    /\ Cardinality(GameIds) = Len(players)
    /\ \A k \in 1..Len(bots) :
          IsBotId(bots[k].playerId) /\ bots[k].playerId \in GameIds

\* A tick has removed a bot whose id is gone from the game state, the room
\* state and the bot table, a client has left, and other bots remain.
BotAndClientGone ==
    /\ TickEnded
    /\ \E k \in 1..botSeq :
          /\ BotIdTab[k] \notin GameIds \cup DOMAIN state
          /\ \A b \in 1..Len(bots) : bots[b].playerId # BotIdTab[k]
    /\ \E id \in joined : id \notin GameIds \cup DOMAIN state
    /\ Len(bots) > 0

-----------------------------------------------------------------------------
\* No player whose trail the move of another player crossed, that player
\* having run its collision detection to the end, is alive and outside
\* after the tick.
CrossedDoNotSurvive(mid, after, evs) ==
    \A b \in 1..Len(mid), v \in 1..Len(mid) :
        ( /\ b # v
          /\ ~mid[b].isDead /\ ~mid[v].isDead
          /\ << mid[b].id, "collisionCheck" >> \in evs
          /\ << mid[b].id, "selfHit" >> \notin evs
          /\ \E c \in ScannedCrossings(mid, b) : c[1] = mid[v].id )
        => \A j \in 1..Len(after) :
              after[j].id = mid[v].id => after[j].isDead \/ ~after[j].isOutside

\* C39: when every trail segment and every move is shorter than the cell
\* size (100), the trail segments crossing a live player's move prev->curr
\* among those query(x, y) returns are exactly the ones a scan of all trail
\* segments of all live players finds, in every tick and in every probe,
\* and no player whose trail was crossed in a tick stays alive and outside.
HashLosesNoCollision ==
    /\ [][TickEnded' =>
            \A mid \in { GameUpdate(players, lastDt') } :
                ShortSegments(mid) =>
                    /\ \A me \in 1..Len(mid) :
                          ~mid[me].isDead =>
                              QueriedCrossings(mid, me) = ScannedCrossings(mid, me)
                    /\ CrossedDoNotSurvive(mid, players', log')]_vars
    /\ [](\A s \in log :
            (s[1] = "probed" /\ ShortSegments(s[2].ps))
                => s[2].queried = s[2].scanned)

\* A player has just cut another player's trail in a tick of short moves,
\* and the cells its query visited hold only a part of its own trail.
CutFoundThroughHash ==
    /\ TickEnded
    /\ \E b \in Live :
          /\ Did(players, b, "collisionCheck", log)
          /\ DistSq(PrevPos(players[b]), << players[b].x, players[b].y >>)
               < CELL_SIZE * CELL_SIZE
          /\ \E v \in 1..Len(players) :
                v # b /\ players[v].isDead /\ Did(players, v, "cut", log)
          /\ \E cells \in { QueryCells(players[b].x, players[b].y) } :
                NearTrail(players[b], { cells[k] : k \in 1..9 })
                    \notin { {}, 0..(Len(players[b].trail) - 2) }

\* A probe of short segments has found a crossing of a trail segment whose
\* two endpoints lie outside the nine cells of the query.
FoundByMidpoint ==
    \E s \in log :
        /\ s[1] = "probed"
        /\ ShortSegments(s[2].ps)
        /\ s[2].queried # {}
        /\ \E cells \in { QueryCells(s[2].ps[1].x, s[2].ps[1].y) } :
              \A p \in { s[2].ps[2].trail[1], s[2].ps[2].trail[2] } :
                  << p[1] \div CELL_SIZE, p[2] \div CELL_SIZE >>
                      \notin { cells[k] : k \in 1..9 }

-----------------------------------------------------------------------------
\* The player stands inside its own territory.
StandsInside(player) ==
    isPointInPolygon(<< player.x, player.y >>, player.territory)

\* What a tick makes of the live players that the capture phase finds
\* flagged outside and inside their own territory (mid): with more than
\* two trail points the trail ends, with at most two the player, unless it
\* is killed or wins in this pass, stays outside with its trail.
InsideOutcome(mid, after) ==
    \A i \in 1..Len(mid), j \in 1..Len(after) :
        ( /\ after[j].id = mid[i].id
          /\ ~mid[i].isDead
          /\ mid[i].isOutside
          /\ StandsInside(mid[i]) )
        => IF Len(mid[i].trail) > ENTRY_MIN_TRAIL
           THEN /\ after[j].trail = << >>
                /\ after[j].isDead \/ ~after[j].isOutside
           ELSE (~after[j].isDead /\ mid[i].score < WIN_THRESHOLD)
                => (after[j].isOutside /\ after[j].trail = mid[i].trail)

\* C40: at the end of every tick a live player flagged isOutside whose
\* position lies inside its own territory has a trail of at most 2 points;
\* a tick that finds such a player with at most 2 points leaves it outside
\* with its trail, and one that finds it with more than 2 ends the trail.
ShortTrailInside ==
    /\ [](\A i \in Live :
            (players[i].isOutside /\ StandsInside(players[i]))
                => Len(players[i].trail) <= ENTRY_MIN_TRAIL)
    /\ [][TickEnded' => InsideOutcome(GameUpdate(players, lastDt'), players')]_vars

\* A player flagged outside has stood inside its own territory for two
\* ticks, its trail of two points kept.
StillInsideShortTrail ==
    /\ TickEnded
    /\ \E i \in Live :
          /\ players[i].isOutside
          /\ StandsInside(players[i])
          /\ isPointInPolygon(PrevPos(players[i]), players[i].territory)
          /\ Len(players[i].trail) = ENTRY_MIN_TRAIL

\* A player that was flagged outside has just ended its trail inside its
\* own territory, where it stood the tick before as well.
TrailEndedInside ==
    /\ TickEnded
    /\ \E i \in Live :
          /\ Did(players, i, "entry", log)
          /\ ~players[i].isOutside
          /\ players[i].trail = << >>
          /\ isPointInPolygon(PrevPos(players[i]), players[i].territory)
====
